---- MODULE Spec2Model ----
(***************************************************************************)
(* A model of src/main.py (FastClinica extraction and enrichment script).  *)
(*                                                                         *)
(* Text is modelled as a sequence of one-character strings, so that the    *)
(* string operations of the code (strip, split/join, lower, upper,         *)
(* substring test, prefix test, comparison, date parsing and formatting)   *)
(* are computed, not assumed.  An optional element (a bs4 find() result    *)
(* that may be None) is a sequence of length 0 or 1.  A Python dict is a   *)
(* function; a Python list is a sequence.                                  *)
(*                                                                         *)
(* Specifications:                                                         *)
(*   SpecParser    extraer_secciones_modal on rendered modal fragments     *)
(*   SpecLabel     the label normalisation of extraer_secciones_modal      *)
(*   SpecResumen   preparar_datos_para_resumen on assembled records        *)
(*   SpecFormulas  filtrar_formulas_recientes on prescription lists        *)
(*   SpecSiglas    mapear_siglas_med on prescription lists                 *)
(*   SpecResumir   resumir_paciente_con_bedrock on texts of the model      *)
(*   SpecHistoria  capturar_y_procesar_historia: the loop over the rows    *)
(*   Spec          main: configuration, extraction loop, enrichment loop,  *)
(*                 persistence                                             *)
(***************************************************************************)
EXTENDS Naturals, Integers, Sequences, FiniteSets, TLC

VARIABLES
    pc,                 \* position of the running function / of main
    modal_html,         \* extraer_secciones_modal: the fragment (its section blocks)
    secciones_data,     \* extraer_secciones_modal: the dict being returned
    label,              \* label normalisation: the label read from a field
    label_norm,         \* label normalisation: the stored label
    datos_paciente,     \* the patient record main is building / preparar_datos_para_resumen reads
    datos_clave,        \* preparar_datos_para_resumen: the dict it returns
    formulas_ui,        \* the prescription entries as read from the plan tab
    plan_de_manejo,     \* filtrar_formulas_recientes: the dict it filters in place
    formulas,           \* the list filtrar_formulas_recientes returned (main's local)
    excepcion,          \* the exception that left the running function, or "none"
    env,                \* main: the required environment variables that are set
    cedulas_a_procesar, \* main: the batch of identifiers
    i,                  \* main: position in the batch of the patient being extracted
    pacientes_extraidos, \* main: the records appended so far
    posiciones,         \* for each record of pacientes_extraidos, its position in the batch
    errores_paciente,   \* positions whose "ERROR PROCESANDO PACIENTE" line was printed
    errores_lote,       \* where the errors of the "ERROR CRÍTICO DURANTE EL SCRAPING" lines came from
    driver,             \* the WebDriver session: what was called on it
    p_idx,              \* main: index in pacientes_extraidos of the record being enriched
    llamadas_bedrock,   \* number of invocar_bedrock calls
    salida,             \* the output file: <<>> (not written) or <<the list written>>
    respuesta_texto,    \* resumir_paciente_con_bedrock: the text the model returned
    datos_finales,      \* resumir_paciente_con_bedrock: the dict it returns
    filas_encuentros,   \* capturar_y_procesar_historia: the rows the history tab shows
    fila_i,             \* capturar_y_procesar_historia: the loop index i (from 1)
    modal_abierto,      \* the browser: the row whose detail modal is visible, or 0
    consola             \* capturar_y_procesar_historia: the warnings and errors printed

parserVars == <<modal_html, secciones_data>>
labelVars == <<label, label_norm>>
resumenVars == <<datos_paciente, datos_clave>>
formulasVars == <<formulas_ui, plan_de_manejo, formulas, excepcion>>
mainVars == <<env, cedulas_a_procesar, i, pacientes_extraidos, posiciones, errores_paciente,
              errores_lote, driver, p_idx, llamadas_bedrock, salida>>

resumirVars == <<respuesta_texto, datos_finales>>
historiaVars == <<filas_encuentros, fila_i, modal_abierto, consola>>
extraVars == <<resumirVars, historiaVars>>

vars == <<pc, parserVars, labelVars, resumenVars, formulasVars, mainVars, extraVars>>

(***************************************************************************)
(* Bounds of the model.                                                    *)
(***************************************************************************)
MaxSecciones == 2       \* section blocks in one modal fragment
MaxCampos == 2          \* field blocks in one modal fragment (all sections)
MaxLabelTokens == 2     \* pieces a generated label is made of
MaxEncuentros == 3      \* encounters stored in one patient record (both kinds)
MaxFormulas == 3        \* prescription entries given to filtrar_formulas_recientes
MaxMedicamentos == 2    \* prescription entries given to mapear_siglas_med
MaxPacientes == 2       \* identifiers in one batch
MaxPiezas == 5          \* pieces the text of the model is made of
MaxFilas == 2           \* encounter rows the history tab shows

(***************************************************************************)
(* Text: Python str operations on sequences of characters.                 *)
(***************************************************************************)
Whitespace == {" ", "\n"}

UpperChars == <<"A", "B", "C", "D", "E", "F", "G", "H", "I", "J", "K", "L", "M",
                "N", "O", "P", "Q", "R", "S", "T", "U", "V", "W", "X", "Y", "Z",
                "Á", "É", "Í", "Ó", "Ú", "Ñ">>
LowerChars == <<"a", "b", "c", "d", "e", "f", "g", "h", "i", "j", "k", "l", "m",
                "n", "o", "p", "q", "r", "s", "t", "u", "v", "w", "x", "y", "z",
                "á", "é", "í", "ó", "ú", "ñ">>

\* str.lower() / str.upper() on one character
LowerChar(c) ==
    IF \E k \in 1..Len(UpperChars) : UpperChars[k] = c
    THEN LowerChars[CHOOSE k \in 1..Len(UpperChars) : UpperChars[k] = c]
    ELSE c
UpperChar(c) ==
    IF \E k \in 1..Len(LowerChars) : LowerChars[k] = c
    THEN UpperChars[CHOOSE k \in 1..Len(LowerChars) : LowerChars[k] = c]
    ELSE c

Lower(s) == [k \in 1..Len(s) |-> LowerChar(s[k])]
Upper(s) == [k \in 1..Len(s) |-> UpperChar(s[k])]

\* s.startswith(p)
StartsWith(s, p) == Len(p) <= Len(s) /\ SubSeq(s, 1, Len(p)) = p

\* sub in s
Contains(sub, s) ==
    \/ sub = <<>>
    \/ \E k \in 1..(Len(s) - Len(sub) + 1) :
           s[k] = sub[1] /\ SubSeq(s, k, k + Len(sub) - 1) = sub

\* s.strip()
RECURSIVE LStrip(_)
LStrip(s) == IF s # <<>> /\ Head(s) \in Whitespace THEN LStrip(Tail(s)) ELSE s
RECURSIVE RStrip(_)
RStrip(s) ==
    IF s # <<>> /\ s[Len(s)] \in Whitespace THEN RStrip(SubSeq(s, 1, Len(s) - 1)) ELSE s
Strip(s) == RStrip(LStrip(s))

\* " ".join(s.split()): the words of s, one blank between two words
RECURSIVE JoinSplit(_)
JoinSplit(s) ==
    LET t == LStrip(s) IN
    IF t = <<>> THEN <<>>
    ELSE LET n == IF \E k \in 1..Len(t) : t[k] \in Whitespace
                  THEN (CHOOSE k \in 1..Len(t) :
                            /\ t[k] \in Whitespace
                            /\ \A q \in 1..(k - 1) : t[q] \notin Whitespace) - 1
                  ELSE Len(t)
             rest == JoinSplit(SubSeq(t, n + 1, Len(t)))
         IN IF rest = <<>> THEN SubSeq(t, 1, n)
            ELSE SubSeq(t, 1, n) \o <<" ">> \o rest

\* d[k] = v on a dict
Put(d, k, v) == [x \in (DOMAIN d) \cup {k} |-> IF x = k THEN v ELSE d[x]]

\* d.get(k, default)
Get(d, k, default) == IF k \in DOMAIN d THEN d[k] ELSE default

EmptyDict == [x \in {} |-> <<>>]

(***************************************************************************)
(* extraer_secciones_modal                                                 *)
(***************************************************************************)
s_Fecha_de_diagnostico == <<"F", "e", "c", "h", "a", " ", "d", "e", " ", "d", "i", "a", "g", "n", "ó", "s", "t", "i", "c", "o">>
s_Fecha_diagnostico == <<"F", "e", "c", "h", "a", " ", "d", "i", "a", "g", "n", "ó", "s", "t", "i", "c", "o">>
s_estadio_clinico == <<"e", "s", "t", "a", "d", "i", "o", " ", "c", "l", "í", "n", "i", "c", "o">>
s_Estadio_Clinico == <<"E", "s", "t", "a", "d", "i", "o", " ", "C", "l", "í", "n", "i", "c", "o">>
s_habitos == <<"h", "á", "b", "i", "t", "o", "s">>
s_aliment == <<"a", "l", "i", "m", "e", "n", "t">>
s_Habitos_Alimenticios == <<"H", "á", "b", "i", "t", "o", "s", " ", "A", "l", "i", "m", "e", "n", "t", "i", "c", "i", "o", "s">>
s_Habitos_Toxicologicos == <<"H", "á", "b", "i", "t", "o", "s", " ", "T", "o", "x", "i", "c", "o", "l", "ó", "g", "i", "c", "o", "s">>
s_No_especificado == <<"N", "o", " ", "e", "s", "p", "e", "c", "i", "f", "i", "c", "a", "d", "o">>
s_Enfermedad_Actual == <<"E", "n", "f", "e", "r", "m", "e", "d", "a", "d", " ", "A", "c", "t", "u", "a", "l">>
s_Antecedentes_Medicos == <<"A", "n", "t", "e", "c", "e", "d", "e", "n", "t", "e", "s", " ", "M", "é", "d", "i", "c", "o", "s">>
s_Peso == <<"P", "e", "s", "o">>

TerminoNutricion_Alimentacion ==
    <<"a", "l", "i", "m", "e", "n", "t", "a", "c", "i", "ó", "n">>

\* The term the "hábitos" branch looks for (line 319).
TerminoNutricion == s_aliment

NormalizarLabel_HabitosPrimero(l) ==
    IF l \in {s_Fecha_de_diagnostico, s_Fecha_diagnostico} THEN s_Fecha_de_diagnostico
    ELSE IF Contains(s_habitos, Lower(l))
         THEN IF Contains(TerminoNutricion, Lower(l)) THEN s_Habitos_Alimenticios
              ELSE s_Habitos_Toxicologicos
    ELSE IF StartsWith(Lower(l), s_estadio_clinico) THEN s_Estadio_Clinico
    ELSE l

\* Lines 311-322: the stored label of a field whose label text is l.
NormalizarLabel(l) ==
    IF l \in {s_Fecha_de_diagnostico, s_Fecha_diagnostico} THEN s_Fecha_de_diagnostico
    ELSE IF StartsWith(Lower(l), s_estadio_clinico) THEN s_Estadio_Clinico
    ELSE IF Contains(s_habitos, Lower(l))
         THEN IF Contains(TerminoNutricion, Lower(l)) THEN s_Habitos_Alimenticios
              ELSE s_Habitos_Toxicologicos
    ELSE l

\* Line 303: a field block is used when it has both a label and a placeholder.
CampoBienFormado(campo) == campo.label # <<>> /\ campo.valor # <<>>

\* Lines 305-309: the label and the value read from a well-formed field block.
LabelDe(campo) == Strip(campo.label[1])
ValorDe(campo) ==
    LET v == JoinSplit(campo.valor[1]) IN IF v = <<>> THEN s_No_especificado ELSE v

\* Lines 300-323: the loop over the field blocks of one section; d is
\* secciones_data[titulo].
RECURSIVE ProcesarCampos(_, _)
ProcesarCampos(campos, d) ==
    IF campos = <<>> THEN d
    ELSE IF ~CampoBienFormado(Head(campos)) THEN ProcesarCampos(Tail(campos), d)
    ELSE ProcesarCampos(Tail(campos),
                        Put(d, NormalizarLabel(LabelDe(Head(campos))), ValorDe(Head(campos))))

\* Line 297: the title of a section block that has a heading.
TituloDe(seccion) == Strip(seccion.header[1])

DictInicialSeccion_Setdefault(data, titulo) ==
    IF titulo \in DOMAIN data THEN data[titulo] ELSE EmptyDict

\* Lines 298-299: the dict a section starts from when its title is stored.
DictInicialSeccion(data, titulo) == EmptyDict

\* Lines 293-323: the loop over the section blocks.
RECURSIVE ProcesarSecciones(_, _)
ProcesarSecciones(secciones, data) ==
    IF secciones = <<>> THEN data
    ELSE LET seccion == Head(secciones) IN
         IF seccion.header = <<>> THEN ProcesarSecciones(Tail(secciones), data)
         ELSE ProcesarSecciones(
                  Tail(secciones),
                  Put(data, TituloDe(seccion),
                      ProcesarCampos(seccion.campos,
                                     DictInicialSeccion(data, TituloDe(seccion)))))

extraer_secciones_modal(html) == ProcesarSecciones(html, EmptyDict)

\* What the page can render: the heading of a section block (absent, or its
\* text) and the field blocks (label element and placeholder element, each
\* absent or with its text).
HeadersUI == {<<>>, <<s_Enfermedad_Actual>>, <<<<" ">> \o s_Enfermedad_Actual \o <<"\n">>>>,
              <<s_Antecedentes_Medicos>>}
CamposUI ==
    { [label |-> <<>>, valor |-> <<<<"c">>>>],
      [label |-> <<s_Peso>>, valor |-> <<>>],
      [label |-> <<s_Fecha_diagnostico>>, valor |-> <<<<"a", " ", "\n", "b">>>>],
      [label |-> <<s_Fecha_de_diagnostico>>, valor |-> <<<<"c">>>>],
      [label |-> << <<" ">> \o s_Peso >>, valor |-> <<<<" ">>>>] }

TotalCampos(html) ==
    LET RECURSIVE Suma(_)
        Suma(k) == IF k = 0 THEN 0 ELSE Len(html[k].campos) + Suma(k - 1)
    IN Suma(Len(html))

LabelIdle == label = <<>> /\ label_norm = <<>>
ResumenIdle == datos_paciente = EmptyDict /\ datos_clave = EmptyDict
FormulasIdle ==
    formulas_ui = <<>> /\ plan_de_manejo = EmptyDict /\ formulas = <<>> /\ excepcion = "none"
ParserIdle == modal_html = <<>> /\ secciones_data = EmptyDict
DriverSinCrear ==
    [creado |-> 0, login |-> "no", busquedas |-> 0, screenshots |-> 0, quits |-> 0,
     pantalla |-> "ninguna"]
ResumirIdle == respuesta_texto = <<>> /\ datos_finales = EmptyDict
HistoriaIdle ==
    filas_encuentros = <<>> /\ fila_i = 0 /\ modal_abierto = 0 /\ consola = <<>>
ExtraIdle == ResumirIdle /\ HistoriaIdle
MainIdle ==
    /\ env = EmptyDict /\ cedulas_a_procesar = <<>> /\ i = 0 /\ p_idx = 0
    /\ pacientes_extraidos = <<>> /\ posiciones = <<>> /\ errores_paciente = <<>>
    /\ errores_lote = <<>> /\ driver = DriverSinCrear /\ llamadas_bedrock = 0 /\ salida = <<>>

InitParser ==
    pc = "render" /\ ParserIdle /\ LabelIdle /\ ResumenIdle /\ FormulasIdle /\ MainIdle /\ ExtraIdle

\* The page renders one more section block.
RenderSeccion ==
    /\ pc = "render"
    /\ Len(modal_html) < MaxSecciones
    /\ \E h \in HeadersUI :
           modal_html' = Append(modal_html, [header |-> h, campos |-> <<>>])
    /\ UNCHANGED <<pc, secciones_data, labelVars, resumenVars, formulasVars, mainVars, extraVars>>

\* The page renders one more field block in the last section block.
RenderCampo ==
    /\ pc = "render"
    /\ modal_html # <<>>
    /\ TotalCampos(modal_html) < MaxCampos
    /\ \E c \in CamposUI :
           modal_html' = [modal_html EXCEPT ![Len(modal_html)].campos = Append(@, c)]
    /\ UNCHANGED <<pc, secciones_data, labelVars, resumenVars, formulasVars, mainVars, extraVars>>

\* extraer_secciones_modal(modal_html) is called and returns.
ExtraerSeccionesModal ==
    /\ pc = "render"
    /\ secciones_data' = extraer_secciones_modal(modal_html)
    /\ pc' = "parsed"
    /\ UNCHANGED <<modal_html, labelVars, resumenVars, formulasVars, mainVars, extraVars>>

NextParser == RenderSeccion \/ RenderCampo \/ ExtraerSeccionesModal

SpecParser == InitParser /\ [][NextParser]_vars

(***************************************************************************)
(* C6 (as stated): for a fragment with N section blocks that have a        *)
(* heading, extraer_secciones_modal returns exactly N title keys, and each *)
(* title maps to exactly the well-formed label/value pairs of its section. *)
(***************************************************************************)
SeccionesValidas == {k \in 1..Len(modal_html) : modal_html[k].header # <<>>}
BienFormados(seccion) ==
    {j \in 1..Len(seccion.campos) :
        seccion.campos[j].label # <<>> /\ seccion.campos[j].valor # <<>>}
\* the value text as displayed: words separated by one blank, or the sentinel
ValorMostrado(campo) ==
    LET v == JoinSplit(campo.valor[1]) IN IF v = <<>> THEN s_No_especificado ELSE v
ParesDe(seccion) ==
    {<<NormalizarLabel(Strip(seccion.campos[j].label[1])), ValorMostrado(seccion.campos[j])>> :
        j \in BienFormados(seccion)}
ParesGuardados(d) == {<<c, d[c]>> : c \in DOMAIN d}

C6_Original ==
    pc = "parsed" =>
        /\ Cardinality(DOMAIN secciones_data) = Cardinality(SeccionesValidas)
        /\ \A k \in SeccionesValidas :
               /\ Strip(modal_html[k].header[1]) \in DOMAIN secciones_data
               /\ ParesGuardados(secciones_data[Strip(modal_html[k].header[1])])
                      = ParesDe(modal_html[k])

(***************************************************************************)
(* C6 (amended): extraer_secciones_modal returns one key per distinct      *)
(* heading text among the section blocks that have a heading (so N keys    *)
(* when the N headings are pairwise distinct); each title maps to the      *)
(* well-formed fields of the LAST section block with that title, keyed by  *)
(* the normalised label, the last field winning when two well-formed       *)
(* fields of that section share a normalised label; section blocks without *)
(* heading and ill-formed fields are absent.                               *)
(***************************************************************************)
UltimaSeccionCon(t) ==
    CHOOSE k \in SeccionesValidas :
        /\ Strip(modal_html[k].header[1]) = t
        /\ \A q \in SeccionesValidas : Strip(modal_html[q].header[1]) = t => q <= k
UltimoCampoCon(seccion, c) ==
    CHOOSE j \in BienFormados(seccion) :
        /\ NormalizarLabel(Strip(seccion.campos[j].label[1])) = c
        /\ \A q \in BienFormados(seccion) :
               NormalizarLabel(Strip(seccion.campos[q].label[1])) = c => q <= j

C6_SectionKeys ==
    pc = "parsed" =>
        /\ DOMAIN secciones_data = {Strip(modal_html[k].header[1]) : k \in SeccionesValidas}
        /\ \A t \in DOMAIN secciones_data :
               LET seccion == modal_html[UltimaSeccionCon(t)] IN
               /\ DOMAIN secciones_data[t] = {p[1] : p \in ParesDe(seccion)}
               /\ \A c \in DOMAIN secciones_data[t] :
                      secciones_data[t][c] = ValorMostrado(seccion.campos[UltimoCampoCon(seccion, c)])

\* two section blocks with the same title, one ill-formed and one well-formed
\* field, parsed
C6_Witness ==
    /\ pc = "parsed"
    /\ Cardinality(SeccionesValidas) = 2
    /\ Cardinality(DOMAIN secciones_data) = 1
    /\ \E k \in SeccionesValidas :
           /\ BienFormados(modal_html[k]) # {}
           /\ Cardinality(BienFormados(modal_html[k])) < Len(modal_html[k].campos)

(***************************************************************************)
(* Label normalisation on its own.                                         *)
(***************************************************************************)
LabelTokens ==
    {s_Fecha_de_diagnostico, s_Fecha_diagnostico, s_estadio_clinico, Upper(s_estadio_clinico),
     s_Estadio_Clinico, s_habitos, Upper(s_habitos), s_aliment, Upper(s_aliment),
     s_Habitos_Alimenticios, s_Habitos_Toxicologicos, s_Peso, <<" ">>}

RECURSIVE Concat(_)
Concat(ts) == IF ts = <<>> THEN <<>> ELSE Head(ts) \o Concat(Tail(ts))

\* label texts as get_text(strip=True) returns them
LabelsUI ==
    {Strip(Concat(ts)) : ts \in UNION {[1..n -> LabelTokens] : n \in 0..MaxLabelTokens}}

InitLabel ==
    /\ pc = "label" /\ label \in LabelsUI /\ label_norm = <<>>
    /\ ParserIdle /\ ResumenIdle /\ FormulasIdle /\ MainIdle /\ ExtraIdle

\* Lines 311-323 on the label read from a field.
NormalizarCampo ==
    /\ pc = "label"
    /\ label_norm' = NormalizarLabel(label)
    /\ pc' = "stored"
    /\ UNCHANGED <<label, parserVars, resumenVars, formulasVars, mainVars, extraVars>>

\* The stored label is read back as a field label and normalised again.
Renormalizar ==
    /\ pc = "stored"
    /\ label' = label_norm
    /\ label_norm' = NormalizarLabel(label_norm)
    /\ pc' = "restored"
    /\ UNCHANGED <<parserVars, resumenVars, formulasVars, mainVars, extraVars>>

NextLabel == NormalizarCampo \/ Renormalizar

SpecLabel == InitLabel /\ [][NextLabel]_vars

(***************************************************************************)
(* C7: label normalisation is idempotent: normalising a stored label       *)
(* returns it unchanged, and each of the four canonical labels is stored   *)
(* as itself.                                                              *)
(***************************************************************************)
LabelsCanonicos ==
    {s_Fecha_de_diagnostico, s_Estadio_Clinico, s_Habitos_Alimenticios, s_Habitos_Toxicologicos}

C7_Idempotent ==
    /\ pc = "restored" => label_norm = label
    /\ (pc = "stored" /\ label \in LabelsCanonicos) => label_norm = label

\* a label that normalisation changed has been normalised a second time
C7_Witness ==
    /\ pc = "restored"
    /\ label = s_Habitos_Alimenticios
    /\ label_norm = s_Habitos_Alimenticios

(***************************************************************************)
(* C24 (as stated): a label that contains "hábitos" (in any case) is       *)
(* stored as "Hábitos Alimenticios" when it contains "aliment" (in any     *)
(* case) and as "Hábitos Toxicológicos" otherwise, whatever else it        *)
(* contains.                                                               *)
(***************************************************************************)
LabelHabitos(l) ==
    IF Contains(s_aliment, Lower(l)) THEN s_Habitos_Alimenticios ELSE s_Habitos_Toxicologicos

C24_Original ==
    (pc = "stored" /\ Contains(s_habitos, Lower(label))) => label_norm = LabelHabitos(label)

(***************************************************************************)
(* C24: a label that contains "hábitos" (in any case) and does not start   *)
(* with "estadio clínico" (in any case) is stored as "Hábitos              *)
(* Alimenticios" when it contains "aliment" (in any case) and as "Hábitos  *)
(* Toxicológicos" otherwise; one that starts with "estadio clínico" is     *)
(* stored as "Estadio Clínico".                                            *)
(***************************************************************************)
C24_Habitos ==
    (pc = "stored" /\ Contains(s_habitos, Lower(label))) =>
        label_norm = IF StartsWith(Lower(label), s_estadio_clinico)
                     THEN s_Estadio_Clinico
                     ELSE LabelHabitos(label)

\* a label that starts with "estadio clínico" and goes on with "hábitos"
C24_Witness ==
    /\ pc = "stored"
    /\ label = s_estadio_clinico \o s_habitos
    /\ label_norm = s_Estadio_Clinico

(***************************************************************************)
(* preparar_datos_para_resumen                                             *)
(***************************************************************************)
\* Text literals of preparar_datos_para_resumen (section titles, field
\* labels, defaults, the pieces of the lista_medicamentos line).
lit ==
    [Patologicos |-> <<"P", "a", "t", "o", "l", "ó", "g", "i", "c", "o", "s">>,
     Farmacologicos |-> <<"F", "a", "r", "m", "a", "c", "o", "l", "ó", "g", "i", "c", "o", "s">>,
     Quirurgicos |-> <<"Q", "u", "i", "r", "ú", "r", "g", "i", "c", "o", "s">>,
     Resumen_e_Intervenciones |-> <<"R", "e", "s", "u", "m", "e", "n", " ", "e", " ", "I", "n", "t", "e", "r", "v", "e", "n", "c", "i", "o", "n", "e", "s">>,
     Acciones |-> <<"A", "c", "c", "i", "o", "n", "e", "s">>,
     Seguimiento |-> <<"S", "e", "g", "u", "i", "m", "i", "e", "n", "t", "o", " ", "F", "a", "r", "m", "a", "c", "o", "t", "e", "r", "a", "p", "é", "u", "t", "i", "c", "o">>,
     Tipo_de_intervencion |-> <<"T", "i", "p", "o", " ", "d", "e", " ", "i", "n", "t", "e", "r", "v", "e", "n", "c", "i", "ó", "n">>,
     PRESENCIAL |-> <<"P", "R", "E", "S", "E", "N", "C", "I", "A", "L">>,
     Modalidad_de_intervencion |-> <<"M", "o", "d", "a", "l", "i", "d", "a", "d", " ", "d", "e", " ", "i", "n", "t", "e", "r", "v", "e", "n", "c", "i", "ó", "n">>,
     Descripcion |-> <<"D", "e", "s", "c", "r", "i", "p", "c", "i", "ó", "n", " ", "d", "e", " ", "l", "a", " ", "i", "n", "t", "e", "r", "v", "e", "n", "c", "i", "ó", "n">>,
     CC |-> <<"C", "C">>,
     medicamento |-> <<"m", "e", "d", "i", "c", "a", "m", "e", "n", "t", "o", ":", " ">>,
     cantidad |-> <<",", " ", "c", "a", "n", "t", "i", "d", "a", "d", ":", " ">>,
     fecha_inicio |-> <<",", " ", "f", "e", "c", "h", "a", " ", "i", "n", "i", "c", "i", "o", ":", " ">>]

\* date.today().strftime("%Y-%m-%d") on the day of the run
Hoy == <<"2", "0", "2", "4", "-", "0", "6", "-", "0", "1">>

\* Lines 632-681: the keys of datos_clave.
ClavesDatos ==
    {"nombre_paciente", "documento_id", "tipo_documento_id", "fecha_impresion",
     "fecha_diagnostico", "estadio_clinico", "antecedentes_patologicos",
     "antecedentes_farmacologicos", "antecedentes_quirurgicos", "lista_medicamentos",
     "tipo_intervencion", "medico_enfermedad_actual", "medico_resumen_e_intervenciones",
     "quimico_seguimiento_farmacoterapeutico", "modalidad_intervencion",
     "diagnostico_principal", "antecedentes_actuales", "paciente_sexo", "paciente_edad",
     "otros_medicamentos", "alergias", "habitos_alimenticios", "habitos_toxicos",
     "hospitalizaciones_recientes", "fecha_paraclinico", "cv_paraclinico", "cd4_paraclinico",
     "profilaxis_antibiotica", "metas_terapeuticas", "medicamento_necesario",
     "medicamento_efectivo", "medicamento_seguro", "interacciones", "genotipo",
     "fecha_dispensacion", "modalidad_dispensacion", "adherencia_test", "tolerancia_test",
     "concepto_qf", "sugerencia_horarios"}

DatosClaveIniciales_SinGenotipo(dp) ==
    [k \in ClavesDatos \ {"genotipo"} |->
        CASE k = "nombre_paciente" -> Get(dp, "NOMBRE_PACIENTE", <<>>)
          [] k = "documento_id" -> Get(dp, "CEDULA", <<>>)
          [] k = "tipo_documento_id" -> lit.CC
          [] OTHER -> <<>>]

\* Lines 632-681: datos_clave before the encounters are read ("" and [] are
\* both the empty sequence).
DatosClaveIniciales(dp) ==
    [k \in ClavesDatos |->
        CASE k = "nombre_paciente" -> Get(dp, "NOMBRE_PACIENTE", <<>>)
          [] k = "documento_id" -> Get(dp, "CEDULA", <<>>)
          [] k = "tipo_documento_id" -> lit.CC
          [] OTHER -> <<>>]

\* Python's order on str: by code point, a proper prefix first.  The
\* characters listed are those of the date-time texts compared.
CodePointOrder == <<" ", "-", "/", "0", "1", "2", "3", "4", "5", "6", "7", "8", "9", ":">>
Ord(c) == CHOOSE k \in 1..Len(CodePointOrder) : CodePointOrder[k] = c
RECURSIVE StrLess(_, _)
StrLess(a, b) ==
    IF b = <<>> THEN FALSE
    ELSE IF a = <<>> THEN TRUE
    ELSE IF Head(a) = Head(b) THEN StrLess(Tail(a), Tail(b))
    ELSE Ord(Head(a)) < Ord(Head(b))

\* mutant of OrdenaAntes: reverse=True forgotten
OrdenaAntes_Ascendente(x, y) == StrLess(x.fecha_hora_encuentro, y.fecha_hora_encuentro)

\* Lines 686-687, 719-720: under key=fecha_hora_encuentro, reverse=True,
\* x is placed before y when its key is greater.
OrdenaAntes(x, y) == StrLess(y.fecha_hora_encuentro, x.fecha_hora_encuentro)

\* sorted(): stable, so x goes behind every element it does not precede.
RECURSIVE Insertar(_, _)
Insertar(ordenada, x) ==
    IF ordenada = <<>> THEN <<x>>
    ELSE IF OrdenaAntes(x, Head(ordenada)) THEN <<x>> \o ordenada
    ELSE <<Head(ordenada)>> \o Insertar(Tail(ordenada), x)
RECURSIVE Ordenar(_, _)
Ordenar(lista, ordenada) ==
    IF lista = <<>> THEN ordenada ELSE Ordenar(Tail(lista), Insertar(ordenada, Head(lista)))
sorted_reverse(lista) == Ordenar(lista, <<>>)

Get2(mod, seccion, campo, default) == Get(Get(mod, seccion, EmptyDict), campo, default)

\* Lines 690-714: the fields read from the modal of the medical encounter.
CamposMedico(mod) ==
    [fecha_diagnostico |-> Get2(mod, s_Enfermedad_Actual, s_Fecha_de_diagnostico, <<>>),
     estadio_clinico |-> Get2(mod, s_Enfermedad_Actual, s_Estadio_Clinico, <<>>),
     antecedentes_patologicos |-> Get2(mod, s_Antecedentes_Medicos, lit.Patologicos, <<>>),
     antecedentes_farmacologicos |-> Get2(mod, s_Antecedentes_Medicos, lit.Farmacologicos, <<>>),
     antecedentes_quirurgicos |-> Get2(mod, s_Antecedentes_Medicos, lit.Quirurgicos, <<>>),
     medico_enfermedad_actual |-> Get2(mod, s_Enfermedad_Actual, s_Enfermedad_Actual, <<>>),
     medico_resumen_e_intervenciones |-> Get2(mod, lit.Resumen_e_Intervenciones, lit.Acciones, <<>>)]

\* Lines 730-741: the fields read from the modal of the pharmacist encounter.
CamposQuimico(mod) ==
    [tipo_intervencion |-> Get2(mod, lit.Seguimiento, lit.Tipo_de_intervencion, lit.PRESENCIAL),
     modalidad_intervencion |-> Get2(mod, lit.Seguimiento, lit.Modalidad_de_intervencion, Hoy),
     quimico_seguimiento_farmacoterapeutico |-> Get2(mod, lit.Seguimiento, lit.Descripcion, <<>>)]

\* Lines 726-729: one line of lista_medicamentos.
LineaMedicamento(f) ==
    lit.medicamento \o f.medicamento \o lit.cantidad \o f.cantidad \o lit.fecha_inicio \o f.fecha

\* dict.update with the fields of a record
Update_SinSobrescribir(d, r) ==
    [k \in (DOMAIN d) \cup (DOMAIN r) |-> IF k \in DOMAIN d THEN d[k] ELSE r[k]]

Update(d, r) == [k \in (DOMAIN d) \cup (DOMAIN r) |-> IF k \in DOMAIN r THEN r[k] ELSE d[k]]

preparar_datos_para_resumen(dp) ==
    LET medicos == dp.historia_clinica.medico
        quimicos == dp.historia_clinica.quimico_farmaceutico
        formulas_medicas == dp.plan_de_manejo.formulas_medicas
        d0 == DatosClaveIniciales(dp)
        d1 == IF medicos # <<>>
              THEN Update(d0, CamposMedico(sorted_reverse(medicos)[1].datos_del_modal))
              ELSE d0
    IN IF quimicos # <<>>
       THEN Update(Update(d1, [lista_medicamentos |->
                                   [k \in 1..Len(formulas_medicas) |->
                                       LineaMedicamento(formulas_medicas[k])]]),
                   CamposQuimico(sorted_reverse(quimicos)[1].datos_del_modal))
       ELSE d1

\* What the history tab can show in the date-time column, and the section
\* data read from a modal.
FechasHoraUI ==
    { <<"2", "0", "2", "4", "-", "0", "1", "-", "1", "0">>,
      <<"2", "0", "2", "4", "-", "0", "3", "-", "0", "1">>,
      <<"2", "0", "2", "4", "-", "0", "2", "-", "1", "5">>,
      <<"2", "0", "2", "4", "-", "0", "3", "-", "0", "1", " ", "0", "8", ":", "0", "0">> }
ModalCompleto ==
    (s_Enfermedad_Actual :> (s_Fecha_de_diagnostico :> <<"a">> @@ s_Estadio_Clinico :> <<"a">>
                             @@ s_Enfermedad_Actual :> <<"a">>))
    @@ (s_Antecedentes_Medicos :> (lit.Patologicos :> <<"a">> @@ lit.Farmacologicos :> <<"a">>
                                   @@ lit.Quirurgicos :> <<"a">>))
    @@ (lit.Resumen_e_Intervenciones :> (lit.Acciones :> <<"a">>))
    @@ (lit.Seguimiento :> (lit.Tipo_de_intervencion :> <<"a">>
                            @@ lit.Modalidad_de_intervencion :> <<"a">>
                            @@ lit.Descripcion :> <<"a">>))
ModalParcial ==
    (s_Enfermedad_Actual :> (s_Fecha_de_diagnostico :> <<"b">>))
    @@ (lit.Seguimiento :> (lit.Descripcion :> <<"b">>))
ModalesUI == {ModalCompleto, ModalParcial}

Encuentro(fecha, mod) ==
    [actividad_encuentro |-> <<"x">>, sub_actividad_encuentro |-> <<"x">>,
     profesional_encuentro |-> <<"x">>, fecha_hora_encuentro |-> fecha,
     datos_del_modal |-> mod]

FormulaUI(fecha, medicamento_) ==
    [fecha |-> fecha, medicamento |-> medicamento_, cantidad |-> <<"3", "0">>,
     estado |-> <<"x">>]

\* Lines 1085-1093: the record main builds for a patient.
RegistroPaciente(cedula, nombre) ==
    [CEDULA |-> cedula, NOMBRE_PACIENTE |-> nombre,
     historia_clinica |-> [medico |-> <<>>, quimico_farmaceutico |-> <<>>],
     plan_de_manejo |-> [ordenes_de_servicio |-> <<>>, formulas_medicas |-> <<>>]]

InitResumen ==
    /\ pc = "assemble"
    /\ \E fs \in {<<>>, <<FormulaUI(Hoy, <<"A", "B", "C">>)>>} :
           datos_paciente =
               [RegistroPaciente(<<"7">>, <<"N">>) EXCEPT !.plan_de_manejo.formulas_medicas = fs]
    /\ datos_clave = EmptyDict
    /\ ParserIdle /\ LabelIdle /\ FormulasIdle /\ MainIdle /\ ExtraIdle

\* Lines 437-439: an encounter read from the history tab is appended.
AppendEncuentro ==
    /\ pc = "assemble"
    /\ Len(datos_paciente.historia_clinica.medico)
         + Len(datos_paciente.historia_clinica.quimico_farmaceutico) < MaxEncuentros
    /\ \E tipo \in {"medico", "quimico_farmaceutico"}, fecha \in FechasHoraUI, mod \in ModalesUI :
           datos_paciente' =
               [datos_paciente EXCEPT !.historia_clinica[tipo] = Append(@, Encuentro(fecha, mod))]
    /\ UNCHANGED <<pc, datos_clave, parserVars, labelVars, formulasVars, mainVars, extraVars>>

\* preparar_datos_para_resumen(datos_paciente) is called and returns.
PrepararDatos ==
    /\ pc = "assemble"
    /\ datos_clave' = preparar_datos_para_resumen(datos_paciente)
    /\ pc' = "prepared"
    /\ UNCHANGED <<datos_paciente, parserVars, labelVars, formulasVars, mainVars, extraVars>>

NextResumen == AppendEncuentro \/ PrepararDatos

SpecResumen == InitResumen /\ [][NextResumen]_vars

(***************************************************************************)
(* C8: for each professional kind with at least one encounter, the fields  *)
(* of that kind are those of an encounter whose fecha_hora_encuentro       *)
(* string is maximal in the list, whatever the discovery order.            *)
(***************************************************************************)
EsMaximo(lista, k) ==
    \A q \in 1..Len(lista) :
        ~StrLess(lista[k].fecha_hora_encuentro, lista[q].fecha_hora_encuentro)
Coincide(d, r) == \A campo \in DOMAIN r : d[campo] = r[campo]

C8_MostRecent ==
    pc = "prepared" =>
        LET medicos == datos_paciente.historia_clinica.medico
            quimicos == datos_paciente.historia_clinica.quimico_farmaceutico
        IN /\ medicos # <<>> =>
                  \E k \in 1..Len(medicos) :
                      /\ EsMaximo(medicos, k)
                      /\ Coincide(datos_clave, CamposMedico(medicos[k].datos_del_modal))
           /\ quimicos # <<>> =>
                  \E k \in 1..Len(quimicos) :
                      /\ EsMaximo(quimicos, k)
                      /\ Coincide(datos_clave, CamposQuimico(quimicos[k].datos_del_modal))

\* medical encounters dated 2024-01-10, 2024-03-01, 2024-02-15 in this order,
\* only the second with the complete modal: its fields are the ones derived
C8_Witness ==
    /\ pc = "prepared"
    /\ Len(datos_paciente.historia_clinica.medico) = 3
    /\ datos_paciente.historia_clinica.medico[1].fecha_hora_encuentro
           = <<"2", "0", "2", "4", "-", "0", "1", "-", "1", "0">>
    /\ datos_paciente.historia_clinica.medico[2].fecha_hora_encuentro
           = <<"2", "0", "2", "4", "-", "0", "3", "-", "0", "1">>
    /\ datos_paciente.historia_clinica.medico[3].fecha_hora_encuentro
           = <<"2", "0", "2", "4", "-", "0", "2", "-", "1", "5">>
    /\ datos_paciente.historia_clinica.medico[1].datos_del_modal = ModalParcial
    /\ datos_paciente.historia_clinica.medico[2].datos_del_modal = ModalCompleto
    /\ datos_paciente.historia_clinica.medico[3].datos_del_modal = ModalParcial
    /\ datos_clave["fecha_diagnostico"] = <<"a">>

(***************************************************************************)
(* C14 (as stated): the dict returned has the fixed set of keys, and a     *)
(* field whose source is absent (no encounter of its kind, or no encounter *)
(* of that kind whose modal has the field) is empty.                       *)
(***************************************************************************)
Fuente(clave, tipo, seccion, campo) ==
    [clave |-> clave, tipo |-> tipo, seccion |-> seccion, campo |-> campo]
Fuentes ==
    { Fuente("fecha_diagnostico", "medico", s_Enfermedad_Actual, s_Fecha_de_diagnostico),
      Fuente("estadio_clinico", "medico", s_Enfermedad_Actual, s_Estadio_Clinico),
      Fuente("antecedentes_patologicos", "medico", s_Antecedentes_Medicos, lit.Patologicos),
      Fuente("antecedentes_farmacologicos", "medico", s_Antecedentes_Medicos,
             lit.Farmacologicos),
      Fuente("antecedentes_quirurgicos", "medico", s_Antecedentes_Medicos, lit.Quirurgicos),
      Fuente("medico_enfermedad_actual", "medico", s_Enfermedad_Actual, s_Enfermedad_Actual),
      Fuente("medico_resumen_e_intervenciones", "medico", lit.Resumen_e_Intervenciones,
             lit.Acciones),
      Fuente("tipo_intervencion", "quimico_farmaceutico", lit.Seguimiento,
             lit.Tipo_de_intervencion),
      Fuente("modalidad_intervencion", "quimico_farmaceutico", lit.Seguimiento,
             lit.Modalidad_de_intervencion),
      Fuente("quimico_seguimiento_farmacoterapeutico", "quimico_farmaceutico", lit.Seguimiento,
             lit.Descripcion) }
Ausente(f) ==
    \A k \in 1..Len(datos_paciente.historia_clinica[f.tipo]) :
        LET mod == datos_paciente.historia_clinica[f.tipo][k].datos_del_modal
        IN f.seccion \notin DOMAIN mod \/ f.campo \notin DOMAIN mod[f.seccion]

C14_Original ==
    pc = "prepared" =>
        /\ DOMAIN datos_clave = ClavesDatos
        /\ \A f \in Fuentes : Ausente(f) => datos_clave[f.clave] = <<>>
        /\ datos_paciente.plan_de_manejo.formulas_medicas = <<>>
               => datos_clave["lista_medicamentos"] = <<>>

(***************************************************************************)
(* C14: the dict returned has the fixed set of keys for every record, and  *)
(* a field whose source is absent holds its default: empty, except that    *)
(* with a pharmaceutical encounter tipo_intervencion defaults to           *)
(* "PRESENCIAL" and modalidad_intervencion to the date of the run.  The    *)
(* keys no encounter feeds are empty, nombre_paciente and documento_id     *)
(* come from the record and tipo_documento_id is "CC".                     *)
(***************************************************************************)
Defecto(f) ==
    IF datos_paciente.historia_clinica.quimico_farmaceutico = <<>> THEN <<>>
    ELSE IF f.clave = "tipo_intervencion" THEN lit.PRESENCIAL
    ELSE IF f.clave = "modalidad_intervencion" THEN Hoy
    ELSE <<>>

C14_Defaults ==
    pc = "prepared" =>
        /\ DOMAIN datos_clave = ClavesDatos
        /\ \A f \in Fuentes : Ausente(f) => datos_clave[f.clave] = Defecto(f)
        /\ datos_paciente.plan_de_manejo.formulas_medicas = <<>>
               => datos_clave["lista_medicamentos"] = <<>>
        /\ \A k \in ClavesDatos \ ({f.clave : f \in Fuentes}
                                    \cup {"lista_medicamentos", "nombre_paciente",
                                          "documento_id", "tipo_documento_id"}) :
               datos_clave[k] = <<>>
        /\ datos_clave["nombre_paciente"] = datos_paciente.NOMBRE_PACIENTE
        /\ datos_clave["documento_id"] = datos_paciente.CEDULA
        /\ datos_clave["tipo_documento_id"] = lit.CC

\* no medical encounter, and pharmaceutical encounters whose modals lack the
\* kind and the mode of the intervention
C14_Witness ==
    /\ pc = "prepared"
    /\ datos_paciente.historia_clinica.medico = <<>>
    /\ Len(datos_paciente.historia_clinica.quimico_farmaceutico) = 2
    /\ \A k \in 1..2 :
           datos_paciente.historia_clinica.quimico_farmaceutico[k].datos_del_modal = ModalParcial
    /\ datos_clave["tipo_intervencion"] = lit.PRESENCIAL
    /\ datos_clave["fecha_diagnostico"] = <<>>

(***************************************************************************)
(* C25 (as stated): lista_medicamentos has one entry per prescription of   *)
(* the record, in the same order, with or without encounters.              *)
(***************************************************************************)
C25_Original ==
    pc = "prepared" =>
        LET formulas_medicas == datos_paciente.plan_de_manejo.formulas_medicas IN
        /\ Len(datos_clave["lista_medicamentos"]) = Len(formulas_medicas)
        /\ \A k \in 1..Len(formulas_medicas) :
               datos_clave["lista_medicamentos"][k] = LineaMedicamento(formulas_medicas[k])

(***************************************************************************)
(* filtrar_formulas_recientes                                              *)
(***************************************************************************)
Digitos == <<"0", "1", "2", "3", "4", "5", "6", "7", "8", "9">>
EsDigito(c) == \E k \in 1..Len(Digitos) : Digitos[k] = c
ValorDigito(c) == (CHOOSE k \in 1..Len(Digitos) : Digitos[k] = c) - 1
SoloDigitos(s) == \A k \in 1..Len(s) : EsDigito(s[k])
RECURSIVE Numero(_)
Numero(s) ==
    IF s = <<>> THEN 0 ELSE Numero(SubSeq(s, 1, Len(s) - 1)) * 10 + ValorDigito(s[Len(s)])

\* the pieces of s between the occurrences of sep
RECURSIVE Split(_, _)
Split(s, sep) ==
    IF \A k \in 1..Len(s) : s[k] # sep THEN <<s>>
    ELSE LET k == CHOOSE k \in 1..Len(s) : s[k] = sep /\ \A q \in 1..(k - 1) : s[q] # sep
         IN <<SubSeq(s, 1, k - 1)>> \o Split(SubSeq(s, k + 1, Len(s)), sep)

EsBisiesto(y) == (y % 4 = 0 /\ y % 100 # 0) \/ y % 400 = 0
DiasDelMes(y, m) ==
    IF m = 2 THEN (IF EsBisiesto(y) THEN 29 ELSE 28)
    ELSE IF m \in {4, 6, 9, 11} THEN 30 ELSE 31

\* datetime.strptime(s, "%Y-%m-%d"): <<year, month, day>>, or <<>> when it
\* raises ValueError.  %Y is four digits; %m is 1..12 and %d is 1..31 in one
\* or two digits (%d also a blank and one digit); the day exists.
strptime(s) ==
    LET p == Split(s, "-") IN
    IF Len(p) # 3 THEN <<>>
    ELSE LET dia == IF Len(p[3]) = 2 /\ p[3][1] = " " THEN SubSeq(p[3], 2, 2) ELSE p[3] IN
         IF /\ Len(p[1]) = 4 /\ SoloDigitos(p[1]) /\ Numero(p[1]) >= 1
            /\ Len(p[2]) \in 1..2 /\ SoloDigitos(p[2]) /\ Numero(p[2]) \in 1..12
            /\ Len(dia) \in 1..2 /\ SoloDigitos(dia) /\ Numero(dia) >= 1
            /\ (Len(p[3]) = 2 /\ p[3][1] = " " => Numero(dia) >= 1)
            /\ Numero(dia) <= DiasDelMes(Numero(p[1]), Numero(p[2]))
         THEN <<Numero(p[1]), Numero(p[2]), Numero(dia)>>
         ELSE <<>>

\* n in at least w decimal digits
RECURSIVE Decimal(_, _)
Decimal(n, w) ==
    IF w <= 1 /\ n < 10 THEN <<Digitos[n + 1]>>
    ELSE Decimal(n \div 10, w - 1) \o <<Digitos[(n % 10) + 1]>>

\* d.strftime("%Y-%m-%d")
strftime(d) == Decimal(d[1], 4) \o <<"-">> \o Decimal(d[2], 2) \o <<"-">> \o Decimal(d[3], 2)

\* datetime order
FechaMenor(a, b) ==
    \/ a[1] < b[1]
    \/ a[1] = b[1] /\ a[2] < b[2]
    \/ a[1] = b[1] /\ a[2] = b[2] /\ a[3] < b[3]

\* max(fechas)
MaxFecha(fechas) ==
    fechas[CHOOSE k \in 1..Len(fechas) : \A q \in 1..Len(fechas) : ~FechaMenor(fechas[k], fechas[q])]

s_PRESERVATIVO_MASCULINO == <<"P", "R", "E", "S", "E", "R", "V", "A", "T", "I", "V", "O", " ", "M", "A", "S", "C", "U", "L", "I", "N", "O">>

\* Lines 593-594: the test of the list comprehension.
EsUltima(f, fecha_max) ==
    f.fecha = fecha_max /\ Upper(f.medicamento) # s_PRESERVATIVO_MASCULINO

\* Lines 580-599.  The result: whether ValueError was raised, the dict after
\* the call and the list returned.
filtrar_formulas_recientes(plan) ==
    LET fs == plan.formulas_medicas IN
    IF fs = <<>>
    THEN [raised |-> FALSE, plan |-> [plan EXCEPT !.formulas_medicas = <<>>], ultimas |-> <<>>]
    ELSE LET fechas == [k \in 1..Len(fs) |-> strptime(fs[k].fecha)] IN
         IF \E k \in 1..Len(fs) : fechas[k] = <<>>
         THEN [raised |-> TRUE, plan |-> plan, ultimas |-> <<>>]
         ELSE LET fecha_max == strftime(MaxFecha(fechas))
                  ultimas == SelectSeq(fs, LAMBDA f : EsUltima(f, fecha_max))
              IN [raised |-> FALSE, plan |-> [plan EXCEPT !.formulas_medicas = ultimas],
                  ultimas |-> ultimas]

\* What the plan tab can show in the date column and in the medication column
\* of the prescription table.
FechasUI ==
    { <<"2", "0", "2", "4", "-", "0", "3", "-", "0", "1">>,
      <<"2", "0", "2", "4", "-", "3", "-", "1">>,
      <<"2", "0", "2", "4", "-", "0", "1", "-", "1", "0">>,
      <<"0", "1", "/", "0", "3", "/", "2", "0", "2", "4">> }
MedicamentosUI ==
    { <<"A", "b", "a", "c", "a", "v", "i", "r">>,
      <<"L", "a", "m", "i", "v", "u", "d", "i", "n", "a">>,
      <<"P", "r", "e", "s", "e", "r", "v", "a", "t", "i", "v", "o", " ", "M", "a", "s", "c", "u", "l", "i", "n", "o">> }

Listas(S, n) == UNION {[1..k -> S] : k \in 0..n}

InitFormulas ==
    /\ pc = "plan"
    /\ formulas_ui \in Listas({FormulaUI(fecha, m) : fecha \in FechasUI, m \in MedicamentosUI},
                              MaxFormulas)
    /\ plan_de_manejo = [ordenes_de_servicio |-> <<>>, formulas_medicas |-> formulas_ui]
    /\ formulas = <<>>
    /\ excepcion = "none"
    /\ ParserIdle /\ LabelIdle /\ ResumenIdle /\ MainIdle /\ ExtraIdle

\* Line 1155: formulas = filtrar_formulas_recientes(plan_de_manejo).
FiltrarFormulas ==
    /\ pc = "plan"
    /\ LET r == filtrar_formulas_recientes(plan_de_manejo) IN
           /\ plan_de_manejo' = r.plan
           /\ formulas' = r.ultimas
           /\ excepcion' = IF r.raised THEN "ValueError" ELSE "none"
    /\ pc' = "filtered"
    /\ UNCHANGED <<formulas_ui, parserVars, labelVars, resumenVars, mainVars, extraVars>>

NextFormulas == FiltrarFormulas

SpecFormulas == InitFormulas /\ [][NextFormulas]_vars

(***************************************************************************)
(* C9 (as stated, for lists whose dates are all dates): after              *)
(* filtrar_formulas_recientes, plan_de_manejo holds exactly the entries    *)
(* that carry the most recent date present and are not named               *)
(* PRESERVATIVO MASCULINO (in any case), in their original order.          *)
(***************************************************************************)
EsFecha(s) == strptime(s) # <<>>
LlevaFechaMasReciente(f, lista) ==
    \A q \in 1..Len(lista) : ~FechaMenor(strptime(f.fecha), strptime(lista[q].fecha))

C9_Original ==
    (pc = "filtered" /\ \A k \in 1..Len(formulas_ui) : EsFecha(formulas_ui[k].fecha)) =>
        /\ excepcion = "none"
        /\ plan_de_manejo.formulas_medicas =
               SelectSeq(formulas_ui,
                         LAMBDA f : /\ LlevaFechaMasReciente(f, formulas_ui)
                                    /\ Upper(f.medicamento) # s_PRESERVATIVO_MASCULINO)

(***************************************************************************)
(* mapear_siglas_med                                                       *)
(***************************************************************************)
\* Lines 548-572, in the order of the dict: <<substance, abbreviation>>.
SIGLAS_MEDICAMENTOS ==
    << <<<<"A", "b", "a", "c", "a", "v", "i", "r">>,
         <<"A", "B", "C">>>>,
       <<<<"Z", "i", "d", "o", "v", "u", "d", "i", "n", "a">>,
         <<"A", "Z", "T", "/", "2", "D", "V">>>>,
       <<<<"L", "a", "m", "i", "v", "u", "d", "i", "n", "a">>,
         <<"3", "T", "C">>>>,
       <<<<"E", "m", "t", "r", "i", "c", "i", "t", "a", "b", "i", "n", "a">>,
         <<"F", "T", "C">>>>,
       <<<<"T", "e", "n", "o", "f", "o", "v", "i", "r", " ", "A", "l", "a", "f", "e", "n", "a", "m", "i", "d", "a">>,
         <<"T", "A", "F">>>>,
       <<<<"T", "e", "n", "o", "f", "o", "v", "i", "r", " ", "d", "e", "s", "o", "x", "o", "r", "i", "b", "o", "s", "a">>,
         <<"T", "D", "F">>>>,
       <<<<"T", "e", "n", "o", "f", "o", "v", "i", "r", " ", "f", "u", "m", "a", "r", "a", "t", "o">>,
         <<"T", "D", "F">>>>,
       <<<<"E", "f", "a", "v", "i", "r", "e", "n", "z">>,
         <<"E", "F", "V">>>>,
       <<<<"E", "t", "r", "a", "v", "i", "r", "i", "n", "a">>,
         <<"E", "T", "R">>>>,
       <<<<"R", "i", "l", "p", "i", "v", "i", "r", "i", "n", "a">>,
         <<"R", "P", "V">>>>,
       <<<<"N", "e", "v", "i", "r", "a", "p", "i", "n", "a">>,
         <<"N", "V", "P">>>>,
       <<<<"D", "o", "l", "u", "t", "e", "g", "r", "a", "v", "i", "r">>,
         <<"D", "T", "G">>>>,
       <<<<"R", "a", "l", "t", "e", "g", "r", "a", "v", "i", "r">>,
         <<"R", "A", "L">>>>,
       <<<<"E", "l", "v", "i", "t", "e", "g", "r", "a", "v", "i", "r">>,
         <<"E", "V", "G">>>>,
       <<<<"C", "o", "b", "i", "c", "i", "s", "t", "a", "t">>,
         <<"C", "O", "B", "I">>>>,
       <<<<"M", "a", "r", "a", "v", "i", "r", "o", "c">>,
         <<"M", "V", "C">>>>,
       <<<<"D", "i", "d", "a", "n", "o", "s", "i", "n", "a">>,
         <<"D", "D", "I">>>>,
       <<<<"B", "i", "c", "t", "e", "g", "r", "a", "v", "i", "r">>,
         <<"B", "I", "C">>>>,
       <<<<"F", "o", "s", "a", "m", "p", "r", "e", "n", "a", "v", "i", "r">>,
         <<"F", "P", "V", "/", "r">>>>,
       <<<<"R", "i", "t", "o", "n", "a", "v", "i", "r">>,
         <<"D", "R", "V", "/", "r">>>>,
       <<<<"D", "a", "r", "u", "n", "a", "v", "i", "r">>,
         <<"D", "R", "V", "/", "r">>>>,
       <<<<"A", "t", "a", "z", "a", "n", "a", "v", "i", "r">>,
         <<"A", "T", "V", "/", "r">>>>,
       <<<<"D", "o", "r", "a", "v", "i", "r", "i", "n", "a">>,
         <<"D", "O", "R", "/", "C">>>> >>

\* mutant of ClaveEnNombre: the .lower() calls forgotten
ClaveEnNombre_SinLower(clave, nombre) == Contains(clave, nombre)

\* Line 614: clave.lower() in nombre.lower()
ClaveEnNombre(clave, nombre) == Contains(Lower(clave), Lower(nombre))

\* Line 610: SIGLAS_MEDICAMENTOS.get(nombre), <<>> for None.
SiglaExacta(nombre) ==
    IF \E k \in 1..Len(SIGLAS_MEDICAMENTOS) : SIGLAS_MEDICAMENTOS[k][1] = nombre
    THEN SIGLAS_MEDICAMENTOS[CHOOSE k \in 1..Len(SIGLAS_MEDICAMENTOS) :
                                 SIGLAS_MEDICAMENTOS[k][1] = nombre][2]
    ELSE <<>>

\* Lines 613-616: the loop over the items from item k on, left at the first
\* match; <<>> when it ends without one.
RECURSIVE SiglaParcial(_, _)
SiglaParcial(nombre, k) ==
    IF k > Len(SIGLAS_MEDICAMENTOS) THEN <<>>
    ELSE IF ClaveEnNombre(SIGLAS_MEDICAMENTOS[k][1], nombre) THEN SIGLAS_MEDICAMENTOS[k][2]
    ELSE SiglaParcial(nombre, k + 1)

\* Lines 608-618 on one entry.
MapearSigla(f) ==
    LET nombre == Strip(f.medicamento)
        exacta == SiglaExacta(nombre)
        sigla == IF exacta = <<>> THEN SiglaParcial(nombre, 1) ELSE exacta
    IN IF sigla # <<>> THEN [f EXCEPT !.medicamento = sigla] ELSE f

\* Lines 607-618: the entries are changed in place.
mapear_siglas_med(fs) == [k \in 1..Len(fs) |-> MapearSigla(fs[k])]

\* Medication names the plan tab can show: each substance of the table as
\* written there, in capitals with a dose, two substances in one name, and
\* names the table does not know.
SustanciasCombinadas ==
    {SIGLAS_MEDICAMENTOS[k][1] : k \in {1, 2, 3}}
NombresUI ==
    {SIGLAS_MEDICAMENTOS[k][1] : k \in 1..Len(SIGLAS_MEDICAMENTOS)}
    \cup {Upper(SIGLAS_MEDICAMENTOS[k][1]) \o <<" ", "3", "0", "0", "M", "G">> : k \in {1, 5, 7, 20}}
    \cup {a \o <<" ", "+", " ">> \o b : a, b \in SustanciasCombinadas}
    \cup { <<"I", "b", "u", "p", "r", "o", "f", "e", "n", "o">>,
           <<"T", "e", "n", "o", "f", "o", "v", "i", "r">>,
           <<>> }

InitSiglas ==
    /\ pc = "filtered"
    /\ formulas_ui \in Listas({FormulaUI(Hoy, m) : m \in NombresUI}, MaxMedicamentos)
    /\ formulas = formulas_ui
    /\ plan_de_manejo = [ordenes_de_servicio |-> <<>>, formulas_medicas |-> formulas_ui]
    /\ excepcion = "none"
    /\ ParserIdle /\ LabelIdle /\ ResumenIdle /\ MainIdle /\ ExtraIdle

\* Lines 1156-1157: mapear_siglas_med(formulas), and the list is stored.
MapearSiglas ==
    /\ pc = "filtered"
    /\ formulas' = mapear_siglas_med(formulas)
    /\ plan_de_manejo' = [plan_de_manejo EXCEPT !.formulas_medicas = formulas']
    /\ pc' = "mapped"
    /\ UNCHANGED <<formulas_ui, excepcion, parserVars, labelVars, resumenVars, mainVars, extraVars>>

NextSiglas == MapearSiglas

SpecSiglas == InitSiglas /\ [][NextSiglas]_vars

(***************************************************************************)
(* C10 (as stated): for every prescription, medicamento becomes the        *)
(* abbreviation of the substance the name equals; becomes the abbreviation *)
(* of a substance when the name merely contains that substance; stays      *)
(* unchanged when no substance matches; and afterwards is a table          *)
(* abbreviation or the original name.                                      *)
(***************************************************************************)
Tabla == 1..Len(SIGLAS_MEDICAMENTOS)
Sustancia(k) == SIGLAS_MEDICAMENTOS[k][1]
Abreviatura(k) == SIGLAS_MEDICAMENTOS[k][2]
SustanciaMinusculas == [k \in Tabla |-> Lower(Sustancia(k))]
\* the substances the name contains, without regard to case
Contenidas(nombre) ==
    LET n == Lower(nombre) IN {k \in Tabla : Contains(SustanciaMinusculas[k], n)}
EsSustancia(nombre) == \E k \in Tabla : Sustancia(k) = Strip(nombre)

C10_Original ==
    pc = "mapped" =>
        \A j \in 1..Len(formulas_ui) :
            LET nombre == formulas_ui[j].medicamento
                despues == formulas[j].medicamento
                contenidas == Contenidas(nombre)
            IN /\ \A k \in Tabla : Sustancia(k) = Strip(nombre) => despues = Abreviatura(k)
               /\ ~EsSustancia(nombre) => \A k \in contenidas : despues = Abreviatura(k)
               /\ contenidas = {} => despues = nombre
               /\ despues \in {Abreviatura(k) : k \in Tabla} \cup {nombre}

(***************************************************************************)
(* C10 (amended): for every prescription, medicamento becomes the          *)
(* abbreviation of the substance the name equals; otherwise the            *)
(* abbreviation of the FIRST substance, in the order of the table, that    *)
(* the name contains without regard to case; stays unchanged when the name *)
(* contains no substance; and afterwards is a table abbreviation or the    *)
(* original name.  The other fields of the entry and the list's length and *)
(* order are unchanged.                                                    *)
(***************************************************************************)
C10_FirstMatch ==
    pc = "mapped" =>
        /\ Len(formulas) = Len(formulas_ui)
        /\ plan_de_manejo.formulas_medicas = formulas
        /\ \A j \in 1..Len(formulas_ui) :
               LET nombre == formulas_ui[j].medicamento
                   despues == formulas[j].medicamento
                   contenidas == Contenidas(nombre)
               IN /\ \A k \in Tabla : Sustancia(k) = Strip(nombre) => despues = Abreviatura(k)
                  /\ (~EsSustancia(nombre) /\ contenidas # {}) =>
                         \E k \in contenidas :
                             /\ \A q \in contenidas : k <= q
                             /\ despues = Abreviatura(k)
                  /\ contenidas = {} => despues = nombre
                  /\ despues \in {Abreviatura(k) : k \in Tabla} \cup {nombre}
                  /\ formulas[j] = [formulas_ui[j] EXCEPT !.medicamento = despues]

\* a list with a name equal to a substance and a name in capitals that only
\* contains one has been mapped
C10_Witness ==
    /\ pc = "mapped"
    /\ Len(formulas_ui) = 2
    /\ formulas_ui[1].medicamento = Sustancia(3)
    /\ formulas[1].medicamento = Abreviatura(3)
    /\ formulas_ui[2].medicamento = Upper(Sustancia(1)) \o <<" ", "3", "0", "0", "M", "G">>
    /\ formulas[2].medicamento = Abreviatura(1)

(***************************************************************************)
(* resumir_paciente_con_bedrock                                            *)
(***************************************************************************)
s_Error == <<".", " ", "E", "r", "r", "o", "r", ":", " ">>
s_Respuesta_recibida == <<".", " ", "R", "e", "s", "p", "u", "e", "s", "t", "a", " ", "r", "e", "c", "i", "b", "i", "d", "a", ":", " ">>
s_No_se_encontro == <<"N", "o", " ", "s", "e", " ", "e", "n", "c", "o", "n", "t", "r", "ó", " ", "u", "n", " ", "o", "b", "j", "e", "t", "o", " ", "J", "S", "O", "N", " ", "e", "n", " ", "l", "a", " ", "r", "e", "s", "p", "u", "e", "s", "t", "a", " ", "d", "e", " ", "l", "a", " ", "I", "A", ".">>
ERROR_CRITICO == <<"E", "R", "R", "O", "R", " ", "C", "R", "Í", "T", "I", "C", "O", ":", " ", "N", "o", " ", "s", "e", " ", "p", "u", "d", "o", " ", "g", "e", "n", "e", "r", "a", "r", " ", "e", "l", " ", "r", "e", "s", "u", "m", "e", "n", " ", "c", "o", "n", " ", "I", "A">>
\* str(e) of a json.JSONDecodeError; the position it names is left out.
s_JSONDecodeError == <<"E", "x", "p", "e", "c", "t", "i", "n", "g", " ", "v", "a", "l", "u", "e">>
s_concepto_qf == <<"c", "o", "n", "c", "e", "p", "t", "o", "_", "q", "f">>
s_nota == <<"n", "o", "t", "a">>

\* Line 959: respuesta_texto[:500].
MaxRespuestaEnMensaje == 500

re_search_NoCodicioso(texto) ==
    LET abre == {k \in 1..Len(texto) : texto[k] = "{"}
        cierra == {k \in 1..Len(texto) : texto[k] = "}"}
    IN IF abre = {} THEN <<>>
       ELSE LET a == CHOOSE k \in abre : \A q \in abre : k <= q
                despues == {k \in cierra : k > a}
            IN IF despues = {} THEN <<>>
               ELSE LET b == CHOOSE k \in despues : \A q \in despues : k <= q
                    IN <<SubSeq(texto, a, b)>>

\* Line 934: re.search(r"\{.*\}", texto, re.DOTALL).  The match starts at the
\* first "{" and, "." matching every character and "*" being greedy, ends at
\* the last "}" after it; <<>> is None.
re_search(texto) ==
    LET abre == {k \in 1..Len(texto) : texto[k] = "{"}
        cierra == {k \in 1..Len(texto) : texto[k] = "}"}
    IN IF abre = {} THEN <<>>
       ELSE LET a == CHOOSE k \in abre : \A q \in abre : k <= q
                despues == {k \in cierra : k > a}
            IN IF despues = {} THEN <<>>
               ELSE LET b == CHOOSE k \in despues : \A q \in despues : q <= k
                    IN <<SubSeq(texto, a, b)>>

\* json.loads on texts made of braces, quotes, colons, commas, white space
\* and letters: a value is a string (no escapes) or an object; anything else
\* is a JSONDecodeError (ok = FALSE).  A parse gives the value and the
\* position after it.  An object is a function from key texts to values; a
\* repeated key keeps its last value.
Falla == [ok |-> FALSE, val |-> <<>>, pos |-> 0]

RECURSIVE SkipWs(_, _)
SkipWs(s, p) == IF p <= Len(s) /\ s[p] \in Whitespace THEN SkipWs(s, p + 1) ELSE p

\* the position of the first quote from p on, 0 when there is none
FinCadena(s, p) ==
    LET comillas == {k \in p..Len(s) : s[k] = "\""}
    IN IF comillas = {} THEN 0 ELSE CHOOSE k \in comillas : \A q \in comillas : k <= q

\* s[p] is the opening quote
ParseString(s, p) ==
    LET q == FinCadena(s, p + 1)
    IN IF q = 0 THEN Falla ELSE [ok |-> TRUE, val |-> SubSeq(s, p + 1, q - 1), pos |-> q + 1]

RECURSIVE ParseValue(_, _)
RECURSIVE ParseMembers(_, _, _)

\* the members of an object from position p on, d holding those read so far
ParseMembers(s, p, d) ==
    LET p1 == SkipWs(s, p) IN
    IF p1 > Len(s) \/ s[p1] # "\"" THEN Falla
    ELSE LET k == ParseString(s, p1) IN
         IF ~k.ok THEN Falla
         ELSE LET p2 == SkipWs(s, k.pos) IN
              IF p2 > Len(s) \/ s[p2] # ":" THEN Falla
              ELSE LET v == ParseValue(s, p2 + 1) IN
                   IF ~v.ok THEN Falla
                   ELSE LET p3 == SkipWs(s, v.pos)
                            d1 == Put(d, k.val, v.val)
                        IN IF p3 > Len(s) THEN Falla
                           ELSE IF s[p3] = "," THEN ParseMembers(s, p3 + 1, d1)
                           ELSE IF s[p3] = "}" THEN [ok |-> TRUE, val |-> d1, pos |-> p3 + 1]
                           ELSE Falla

ParseValue(s, p) ==
    LET p1 == SkipWs(s, p) IN
    IF p1 > Len(s) THEN Falla
    ELSE IF s[p1] = "\"" THEN ParseString(s, p1)
    ELSE IF s[p1] = "{"
         THEN LET p2 == SkipWs(s, p1 + 1) IN
              IF p2 <= Len(s) /\ s[p2] = "}"
              THEN [ok |-> TRUE, val |-> EmptyDict, pos |-> p2 + 1]
              ELSE ParseMembers(s, p2, EmptyDict)
    ELSE Falla

\* Line 941: json.loads(json_fragment); ok = FALSE is json.JSONDecodeError.
json_loads(s) ==
    LET v == ParseValue(s, 1) IN
    IF v.ok /\ SkipWs(s, v.pos) > Len(s) THEN v ELSE Falla

\* The keys of datos_clave and of the record are written as TLA+ strings:
\* the key of that name for a key text the model can produce.
ClaveDe(c) == IF c = s_concepto_qf THEN "concepto_qf" ELSE "nota"
ConClaves(objeto) ==
    [k \in {ClaveDe(c) : c \in DOMAIN objeto} |->
        objeto[CHOOSE c \in DOMAIN objeto : ClaveDe(c) = k]]

\* Lines 957-960: the text stored in concepto_qf by the fallback.
MensajeFallback(e, texto) ==
    ERROR_CRITICO \o s_Error \o e \o s_Respuesta_recibida
        \o SubSeq(texto, 1, IF Len(texto) < MaxRespuestaEnMensaje
                            THEN Len(texto) ELSE MaxRespuestaEnMensaje)

\* Lines 810-836: what invocar_bedrock can do: return a text, raise a
\* json.JSONDecodeError / ValueError (a body that is not JSON), or raise
\* another error (the call itself, a missing key of the body).
Respuesta(raised, texto) == [raised |-> raised, texto |-> texto]

Capturada_SoloJSONDecodeError(e) == e = "JSONDecodeError"

\* Line 951: except (json.JSONDecodeError, ValueError).
Capturada(e) == e \in {"JSONDecodeError", "ValueError"}

\* Lines 839-963: resumir_paciente_con_bedrock(datos_paciente) when
\* invocar_bedrock behaves as `respuesta` says.  raised = TRUE: the error
\* leaves the function.
resumir_paciente_con_bedrock(dp, respuesta) ==
    LET datos_preparados == preparar_datos_para_resumen(dp)
        json_match == re_search(respuesta.texto)
        datos_rellenados_por_ia == json_loads(json_match[1])
        \* what is raised inside the try of line 929
        error == IF respuesta.raised # "none" THEN respuesta.raised
                 ELSE IF json_match = <<>> THEN "ValueError"
                 ELSE IF ~datos_rellenados_por_ia.ok THEN "JSONDecodeError"
                 ELSE "none"
        e == IF error = "ValueError" /\ respuesta.raised = "none"
             THEN s_No_se_encontro ELSE s_JSONDecodeError
    IN IF error = "none"
       THEN [raised |-> FALSE,
             datos_finales |-> Update(datos_preparados, ConClaves(datos_rellenados_por_ia.val))]
       ELSE IF Capturada(error)
       THEN [raised |-> FALSE,
             datos_finales |-> Put(datos_preparados, "concepto_qf",
                                   MensajeFallback(e, respuesta.texto))]
       ELSE [raised |-> TRUE, datos_finales |-> EmptyDict]

FALLO_TOTAL == <<"F", "A", "L", "L", "O", " ", "T", "O", "T", "A", "L", ":", " ", "E", "r", "r", "o", "r", " ", "a", "l", " ", "g", "e", "n", "e", "r", "a", "r", " ", "y", " ", "f", "u", "s", "i", "o", "n", "a", "r", " ", "c", "a", "m", "p", "o", "s", " ", "c", "o", "n", " ", "I", "A", ".">>
Fecha_Reciente == <<"2", "0", "2", "4", "-", "0", "3", "-", "0", "1">>

\* What the model's text can be made of: braces, a letter of prose, a comma,
\* and two members: one whose key is a key of datos_clave, and one whose key
\* is not and whose string is one character longer than the only length
\* limit of resumir_paciente_con_bedrock, the slice at line 959.
ParConcepto == <<"\"", "c", "o", "n", "c", "e", "p", "t", "o", "_", "q", "f", "\"", ":", "\"", "o", "k", "\"">>
TextoLargo == [k \in 1..(MaxRespuestaEnMensaje + 1) |-> "x"]
ParNota == <<"\"", "n", "o", "t", "a", "\"", ":", " ", "\"">> \o TextoLargo \o <<"\"">>
PiezasUI == {<<"{">>, <<"}">>, <<"z">>, <<",">>, ParConcepto, ParNota}
NumPiezas(texto) ==
    Cardinality({k \in 1..Len(texto) : texto[k] \in {"{", "}", "z", ",", ":"}})

\* The records resumir_paciente_con_bedrock is called on: one without
\* encounters and one with a pharmaceutical encounter and a prescription.
PacientesResumir ==
    { RegistroPaciente(<<"7">>, <<"N">>),
      [RegistroPaciente(<<"7">>, <<"N">>) EXCEPT
          !.historia_clinica.quimico_farmaceutico = <<Encuentro(Fecha_Reciente, ModalParcial)>>,
          !.plan_de_manejo.formulas_medicas = <<FormulaUI(Fecha_Reciente, <<"A", "B", "C">>)>>] }

InitResumir ==
    /\ pc = "respuesta"
    /\ datos_paciente \in PacientesResumir
    /\ datos_clave = EmptyDict
    /\ respuesta_texto = <<>>
    /\ datos_finales = EmptyDict
    /\ ParserIdle /\ LabelIdle /\ FormulasIdle /\ MainIdle /\ HistoriaIdle

\* The model writes its answer, piece by piece.
EscribirPieza ==
    /\ pc = "respuesta"
    /\ NumPiezas(respuesta_texto) < MaxPiezas
    /\ \E pieza \in PiezasUI : respuesta_texto' = respuesta_texto \o pieza
    /\ UNCHANGED <<pc, datos_finales, parserVars, labelVars, resumenVars, formulasVars, mainVars,
                   historiaVars>>

\* Lines 1161-1165: resumir_paciente_con_bedrock(datos_paciente) is called;
\* invocar_bedrock returns the text written, or raises before any text.
ResumirConBedrock ==
    /\ pc = "respuesta"
    /\ \E raised \in IF respuesta_texto = <<>> THEN {"none", "ValueError", "otra"} ELSE {"none"} :
           LET r == resumir_paciente_con_bedrock(datos_paciente,
                                                 Respuesta(raised, respuesta_texto))
           IN /\ datos_finales' = r.datos_finales
              /\ excepcion' = IF r.raised THEN "invocar_bedrock" ELSE "none"
    /\ pc' = "resumido"
    /\ UNCHANGED <<respuesta_texto, formulas_ui, plan_de_manejo, formulas, parserVars, labelVars,
                   resumenVars, mainVars, historiaVars>>

\* Lines 1167-1181: main merges the result into the record, or stores the
\* sentinel when the call raised.
FusionarEnRegistro ==
    /\ pc = "resumido"
    /\ datos_paciente' = IF excepcion = "none"
                         THEN Update(datos_paciente, datos_finales)
                         ELSE Put(datos_paciente, "concepto_qf", FALLO_TOTAL)
    /\ pc' = "fusionado"
    /\ UNCHANGED <<datos_clave, parserVars, labelVars, formulasVars, mainVars, extraVars>>

NextResumir == EscribirPieza \/ ResumirConBedrock \/ FusionarEnRegistro

SpecResumir == InitResumir /\ [][NextResumir]_vars

(***************************************************************************)
(* C11 (as stated): whenever the text of the model contains a valid JSON   *)
(* object, whatever stands before and after it, the function returns the   *)
(* key facts updated with that object.                                     *)
(***************************************************************************)
C11_Original ==
    (pc = "resumido" /\ excepcion = "none") =>
        \A a \in 1..Len(respuesta_texto), b \in 1..Len(respuesta_texto) :
            (/\ a < b /\ respuesta_texto[a] = "{" /\ respuesta_texto[b] = "}"
             /\ json_loads(SubSeq(respuesta_texto, a, b)).ok)
                => datos_finales =
                       Update(preparar_datos_para_resumen(datos_paciente),
                              ConClaves(json_loads(SubSeq(respuesta_texto, a, b)).val))

(***************************************************************************)
(* C11: when the text has a "{" with a "}" after it, the function parses   *)
(* exactly the substring from the first "{" of the text to its last "}":   *)
(* when that substring is a JSON object the key facts updated with it are  *)
(* returned, and when it is not (a brace in the surrounding prose) the     *)
(* fallback is returned.  A valid object is therefore merged when the      *)
(* prose before it has no "{" and the prose after it has no "}".           *)
(***************************************************************************)
Posiciones(texto, c) == {k \in 1..Len(texto) : texto[k] = c}
Primera(S) == CHOOSE k \in S : \A q \in S : k <= q
Ultima(S) == CHOOSE k \in S : \A q \in S : q <= k
TieneLlaves(texto) ==
    /\ Posiciones(texto, "{") # {}
    /\ \E k \in Posiciones(texto, "}") : k > Primera(Posiciones(texto, "{"))

C11_FirstToLast ==
    (pc = "resumido" /\ excepcion = "none" /\ TieneLlaves(respuesta_texto)) =>
        LET fragmento == SubSeq(respuesta_texto, Primera(Posiciones(respuesta_texto, "{")),
                                Ultima(Posiciones(respuesta_texto, "}")))
            objeto == json_loads(fragmento)
            datos_preparados == preparar_datos_para_resumen(datos_paciente)
        IN IF objeto.ok
           THEN datos_finales = Update(datos_preparados, ConClaves(objeto.val))
           ELSE datos_finales =
                    Put(datos_preparados, "concepto_qf",
                        MensajeFallback(s_JSONDecodeError, respuesta_texto))

\* prose, an object, prose: the object has been merged
C11_Witness ==
    /\ pc = "resumido"
    /\ respuesta_texto = <<"z", "{">> \o ParConcepto \o <<"}", "z">>
    /\ datos_finales["concepto_qf"] = <<"o", "k">>

(***************************************************************************)
(* C12: when the text of the model has no "{" followed by a "}", or the    *)
(* substring between the first "{" and the last "}" is not JSON, the       *)
(* function returns without raising; the dict returned has exactly the     *)
(* keys of the key facts, concepto_qf holds the "ERROR CRÍTICO" text and   *)
(* every other key holds its key-fact value.                               *)
(***************************************************************************)
SinObjeto(texto) ==
    \/ ~TieneLlaves(texto)
    \/ ~json_loads(SubSeq(texto, Primera(Posiciones(texto, "{")),
                          Ultima(Posiciones(texto, "}")))).ok

C12_Fallback ==
    (pc = "resumido" /\ respuesta_texto # <<>> /\ SinObjeto(respuesta_texto)) =>
        /\ excepcion = "none"
        /\ DOMAIN datos_finales = ClavesDatos
        /\ StartsWith(datos_finales["concepto_qf"], ERROR_CRITICO)
        /\ datos_finales = Put(preparar_datos_para_resumen(datos_paciente), "concepto_qf",
                               datos_finales["concepto_qf"])

\* a text whose only "}" stands before its only "{" has given the fallback
C12_Witness ==
    /\ pc = "resumido"
    /\ respuesta_texto = <<"z", "}", "{">>
    /\ excepcion = "none"
    /\ datos_finales["concepto_qf"] = MensajeFallback(s_No_se_encontro, respuesta_texto)

(***************************************************************************)
(* C13: after a successful enrichment (the substring between the first "{" *)
(* and the last "}" is a JSON object) and main's merge, the record holds   *)
(* the object's value for every key of the object, and the key-fact value  *)
(* for every key-fact key the object does not name.                        *)
(***************************************************************************)
DatosExtraidos(registro) ==
    [k \in {"CEDULA", "NOMBRE_PACIENTE", "historia_clinica", "plan_de_manejo"} |-> registro[k]]

C26_Original ==
    pc = "fusionado" =>
        /\ DatosExtraidos(datos_paciente) \in PacientesResumir
        /\ DOMAIN datos_paciente \subseteq
               ClavesDatos \cup {"CEDULA", "NOMBRE_PACIENTE", "historia_clinica", "plan_de_manejo"}

(***************************************************************************)
(* C16 (as stated): after a successful enrichment, no string the object of *)
(* the model has put into the record is longer than the maximum length;    *)
(* the maximum is taken to be the only length limit the function has, the  *)
(* one of the slice at line 959.                                           *)
(***************************************************************************)
C16_Original ==
    (pc = "fusionado" /\ excepcion = "none" /\ ~SinObjeto(respuesta_texto)) =>
        \A k \in {"concepto_qf", "nota"} \cap DOMAIN datos_paciente :
            Len(datos_paciente[k]) <= MaxRespuestaEnMensaje

(***************************************************************************)
(* capturar_y_procesar_historia: the loop over the encounter rows          *)
(***************************************************************************)
s_MEDICO == <<"M", "E", "D", "I", "C", "O">>
s_FARMACOTERAPEUTICO == <<"F", "A", "R", "M", "A", "C", "O", "T", "E", "R", "A", "P", "É", "U", "T", "I", "C", "O">>
s_QUIMICO == <<"Q", "U", "I", "M", "I", "C", "O">>

\* Line 381: columnas[1].text.strip().upper()
sub_actividad(columnas) == Upper(Strip(columnas[2]))

\* Lines 382-385
es_medico(columnas) == Contains(s_MEDICO, sub_actividad(columnas))
es_quimico(columnas) ==
    \/ Contains(s_FARMACOTERAPEUTICO, sub_actividad(columnas))
    \/ Contains(s_QUIMICO, sub_actividad(columnas))

AbreModal_SinComprobarBoton(fila_actual) ==
    es_medico(fila_actual.columnas) \/ es_quimico(fila_actual.columnas)

\* Lines 387-400: the 'Vista' button of a row is clicked when the row is
\* medical or pharmaceutical and find_elements gave a button.
AbreModal(fila_actual) ==
    /\ es_medico(fila_actual.columnas) \/ es_quimico(fila_actual.columnas)
    /\ fila_actual.vista_buttons # <<>>

tipo_profesional_QuimicoPrimero(columnas) ==
    IF es_quimico(columnas) THEN "quimico_farmaceutico" ELSE "medico"

\* Line 407
tipo_profesional(columnas) == IF es_medico(columnas) THEN "medico" ELSE "quimico_farmaceutico"

\* Lines 429-435: the encounter built from the columns of the row and the
\* sections read from the modal that is visible.
datos_encuentro(columnas, html) ==
    [actividad_encuentro |-> Strip(columnas[1]),
     sub_actividad_encuentro |-> Strip(columnas[2]),
     profesional_encuentro |-> Strip(columnas[3]),
     fecha_hora_encuentro |-> Strip(columnas[4]),
     datos_del_modal |-> extraer_secciones_modal(html)]

\* What the history tab can show: the text of the sub-activity column, the
\* rows (their text columns, the 'Vista' buttons found in them, the fragment
\* their modal shows).
t_Medico == <<"M", "e", "d", "i", "c", "o">>
t_Farmacoterapeutico == <<"F", "a", "r", "m", "a", "c", "o", "t", "e", "r", "a", "p", "é", "u", "t", "i", "c", "o">>
t_Medico_Acento == <<"M", "é", "d", "i", "c", "o">>
t_Quimico_medico == <<"Q", "u", "i", "m", "i", "c", "o", " ", "m", "e", "d", "i", "c", "o">>
HtmlMedico ==
    <<[header |-> <<s_Enfermedad_Actual>>,
       campos |-> <<[label |-> <<s_Fecha_diagnostico>>, valor |-> <<<<"a", " ", "\n", "b">>>>]>>]>>
HtmlQuimico ==
    <<[header |-> <<lit.Seguimiento>>,
       campos |-> <<[label |-> <<lit.Descripcion>>, valor |-> <<<<"c">>>>]>>]>>
Fila(sub, botones, html) ==
    [columnas |-> <<<<"x">>, sub, <<"x">>, Fecha_Reciente>>, vista_buttons |-> botones,
     modal_html |-> html]
FilasUI ==
    { Fila(t_Medico, <<"Vista">>, HtmlMedico),
      Fila(t_Medico, <<>>, HtmlMedico),
      Fila(t_Farmacoterapeutico, <<"Vista">>, HtmlQuimico),
      Fila(t_Medico_Acento, <<"Vista">>, HtmlMedico),
      Fila(t_Quimico_medico, <<"Vista">>, HtmlQuimico),
      [columnas |-> <<<<"x">>, t_Medico, <<"x">>>>, vista_buttons |-> <<"Vista">>,
       modal_html |-> HtmlMedico] }
TablasUI == UNION {[1..n -> FilasUI] : n \in 0..MaxFilas}

InitHistoria ==
    /\ pc = "pestana"
    /\ filas_encuentros \in TablasUI
    /\ fila_i = 0
    /\ modal_abierto = 0
    /\ consola = <<>>
    /\ datos_paciente = RegistroPaciente(<<"7">>, <<"N">>)
    /\ datos_clave = EmptyDict
    /\ ParserIdle /\ LabelIdle /\ FormulasIdle /\ MainIdle /\ ResumirIdle

\* Lines 342-355: the history tab is clicked and its table awaited; a wait
\* that times out leaves the function.
AbrirPestana ==
    /\ pc = "pestana"
    /\ \/ pc' = "filas" /\ UNCHANGED excepcion
       \/ pc' = "retorno" /\ excepcion' = "TimeoutException"
    /\ UNCHANGED <<datos_paciente, datos_clave, formulas_ui, plan_de_manejo, formulas, parserVars,
                   labelVars, mainVars, resumirVars, historiaVars>>

\* Lines 357-367: the rows are awaited; without rows the wait times out, a
\* warning is printed and the record is returned as it is.
EsperarFilas ==
    /\ pc = "filas"
    /\ IF filas_encuentros = <<>>
       THEN /\ consola' = Append(consola, <<"ADVERTENCIA", 0>>)
            /\ pc' = "retorno"
            /\ UNCHANGED fila_i
       ELSE /\ fila_i' = 1
            /\ pc' = "localizar"
            /\ UNCHANGED consola
    /\ UNCHANGED <<filas_encuentros, modal_abierto, resumenVars, formulasVars, parserVars,
                   labelVars, mainVars, resumirVars>>

\* Line 369 and the continue statements: the next row, or the return of
\* line 462 after the last one.
SiguienteFila ==
    IF fila_i < Len(filas_encuentros)
    THEN fila_i' = fila_i + 1 /\ pc' = "localizar"
    ELSE fila_i' = fila_i /\ pc' = "retorno"

\* Lines 371-377: the rows are located again and row i and its columns are
\* taken; the wait or the lookup can raise.
LocalizarFila ==
    /\ pc = "localizar"
    /\ pc' \in {"clasificar", "except_fila"}
    /\ UNCHANGED <<resumenVars, formulasVars, parserVars, labelVars, mainVars, resumirVars,
                   historiaVars>>

\* Lines 378-416: a row with fewer than four columns is passed over; a row
\* that is neither medical nor pharmaceutical is passed over; a row without
\* 'Vista' button is passed over with a warning; otherwise the button is
\* clicked, and the browser shows the modal of the row or does not react.
ClasificarFila ==
    /\ pc = "clasificar"
    /\ LET fila_actual == filas_encuentros[fila_i]
           columnas == fila_actual.columnas
       IN IF Len(columnas) < 4
          THEN SiguienteFila /\ UNCHANGED <<modal_abierto, consola>>
          ELSE IF AbreModal(fila_actual)
          THEN /\ modal_abierto' \in {fila_i, modal_abierto}
               /\ pc' = "modal"
               /\ UNCHANGED <<fila_i, consola>>
          ELSE IF es_medico(columnas) \/ es_quimico(columnas)
          THEN /\ consola' = Append(consola, <<"ADVERTENCIA", fila_i>>)
               /\ SiguienteFila
               /\ UNCHANGED modal_abierto
          ELSE SiguienteFila /\ UNCHANGED <<modal_abierto, consola>>
    /\ UNCHANGED <<filas_encuentros, resumenVars, formulasVars, parserVars, labelVars, mainVars,
                   resumirVars>>

\* Lines 418-439: the modal is awaited, the fragment the visible modal shows
\* is parsed and the encounter is appended; without a visible modal the wait
\* times out.
LeerModal ==
    /\ pc = "modal"
    /\ IF modal_abierto = 0
       THEN pc' = "except_fila" /\ UNCHANGED datos_paciente
       ELSE LET columnas == filas_encuentros[fila_i].columnas IN
            /\ datos_paciente' =
                   [datos_paciente EXCEPT !.historia_clinica[tipo_profesional(columnas)] =
                       Append(@, datos_encuentro(columnas,
                                                 filas_encuentros[modal_abierto].modal_html))]
            /\ pc' = "cerrar"
    /\ UNCHANGED <<datos_clave, formulasVars, parserVars, labelVars, mainVars, resumirVars,
                   historiaVars>>

\* Lines 441-446: the 'Cerrar' button of the modal is clicked and the modal
\* awaited to disappear; the lookup or the click can raise, and the wait
\* times out when the modal stays.
CerrarModal ==
    /\ pc = "cerrar"
    /\ \/ modal_abierto' = 0 /\ SiguienteFila
       \/ pc' = "except_fila" /\ UNCHANGED <<modal_abierto, fila_i>>
    /\ UNCHANGED <<filas_encuentros, consola, resumenVars, formulasVars, parserVars, labelVars,
                   mainVars, resumirVars>>

\* Lines 448-460: the error is printed and a 'Cerrar' button is looked for
\* and clicked if displayed, whatever that raises being ignored; nothing is
\* awaited, and the loop continues.
ExceptFila ==
    /\ pc = "except_fila"
    /\ consola' = Append(consola, <<"ERROR", fila_i>>)
    /\ modal_abierto' \in {0, modal_abierto}
    /\ SiguienteFila
    /\ UNCHANGED <<filas_encuentros, resumenVars, formulasVars, parserVars, labelVars, mainVars,
                   resumirVars>>

NextHistoria ==
    \/ AbrirPestana
    \/ EsperarFilas
    \/ LocalizarFila
    \/ ClasificarFila
    \/ LeerModal
    \/ CerrarModal
    \/ ExceptFila

SpecHistoria == InitHistoria /\ [][NextHistoria]_vars

(***************************************************************************)
(* C19 (as stated): whenever the processing of a row starts, no modal      *)
(* opened for an earlier row is open.                                      *)
(***************************************************************************)
C19_Original == pc = "localizar" => modal_abierto = 0

(***************************************************************************)
(* C20: a modal is opened only by the step that classifies a row, for that *)
(* row, and only when the row is medical or pharmaceutical and has a       *)
(* 'Vista' button; for a medical or pharmaceutical row without the button  *)
(* that step prints a warning, appends no encounter, raises nothing and    *)
(* goes on to the next row; and the loop returns only after the last row.  *)
(***************************************************************************)
FilaClinica(fila) ==
    /\ Len(fila.columnas) >= 4
    /\ fila.columnas[2] \in {t_Medico, t_Farmacoterapeutico, t_Quimico_medico}

C20_OnlyWithVista ==
    [][/\ ((pc' = "modal" /\ pc # "modal") \/ modal_abierto' \notin {0, modal_abierto}) =>
              /\ pc = "clasificar"
              /\ modal_abierto' \in {fila_i, modal_abierto}
              /\ FilaClinica(filas_encuentros[fila_i])
              /\ filas_encuentros[fila_i].vista_buttons # <<>>
       /\ (/\ pc = "clasificar"
           /\ FilaClinica(filas_encuentros[fila_i])
           /\ filas_encuentros[fila_i].vista_buttons = <<>>) =>
              /\ consola' = Append(consola, <<"ADVERTENCIA", fila_i>>)
              /\ datos_paciente' = datos_paciente
              /\ modal_abierto' = modal_abierto
              /\ excepcion' = "none"
              /\ IF fila_i < Len(filas_encuentros)
                 THEN pc' = "localizar" /\ fila_i' = fila_i + 1
                 ELSE pc' = "retorno"
       /\ (pc' = "retorno" /\ pc \notin {"pestana", "filas"}) =>
              fila_i' = Len(filas_encuentros)]_vars

\* a medical row without button was passed over with a warning and the
\* medical row after it was read
C20_Witness ==
    /\ pc = "retorno"
    /\ filas_encuentros = <<Fila(t_Medico, <<>>, HtmlMedico), Fila(t_Medico, <<"Vista">>, HtmlMedico)>>
    /\ consola = <<<<"ADVERTENCIA", 1>>>>
    /\ Len(datos_paciente.historia_clinica.medico) = 1
    /\ modal_abierto = 0

(***************************************************************************)
(* C21 (as stated): a stored encounter whose sub-activity text contains    *)
(* "MEDICO" (in any case) is under the medical kind, and one whose text    *)
(* contains "FARMACOTERAPÉUTICO" or "QUIMICO" is under the pharmaceutical  *)
(* kind.                                                                   *)
(***************************************************************************)
Menciona(palabra, texto) == Contains(palabra, Upper(texto))
MencionaQuimico(texto) ==
    Menciona(s_FARMACOTERAPEUTICO, texto) \/ Menciona(s_QUIMICO, texto)
Guardados(tipo) ==
    {datos_paciente.historia_clinica[tipo][k].sub_actividad_encuentro :
        k \in 1..Len(datos_paciente.historia_clinica[tipo])}

C21_Original ==
    /\ \A texto \in Guardados("quimico_farmaceutico") : ~Menciona(s_MEDICO, texto)
    /\ \A texto \in Guardados("medico") : ~MencionaQuimico(texto)

(***************************************************************************)
(* C21: a row is stored only by the step that reads its modal; its         *)
(* encounter goes under the medical kind when its sub-activity text        *)
(* contains "MEDICO" (in any case), also when the text contains            *)
(* "FARMACOTERAPÉUTICO" or "QUIMICO" as well, under the pharmaceutical     *)
(* kind when it contains one of these two and not "MEDICO", and the other  *)
(* kind is left as it was; a row whose text contains none of the three is  *)
(* passed over without a modal, an encounter or a message.                 *)
(***************************************************************************)
C21_Kinds ==
    [][LET columnas == filas_encuentros[fila_i].columnas
           texto == Strip(columnas[2])
           tipo == IF Menciona(s_MEDICO, texto) THEN "medico" ELSE "quimico_farmaceutico"
           otro == IF Menciona(s_MEDICO, texto) THEN "quimico_farmaceutico" ELSE "medico"
       IN /\ (datos_paciente' # datos_paciente) =>
                 /\ pc = "modal"
                 /\ Menciona(s_MEDICO, texto) \/ MencionaQuimico(texto)
                 /\ Len(datos_paciente'.historia_clinica[tipo])
                        = Len(datos_paciente.historia_clinica[tipo]) + 1
                 /\ datos_paciente'.historia_clinica[tipo][
                        Len(datos_paciente'.historia_clinica[tipo])].sub_actividad_encuentro = texto
                 /\ datos_paciente'.historia_clinica[otro] = datos_paciente.historia_clinica[otro]
          /\ (/\ pc = "clasificar"
              /\ Len(columnas) >= 4
              /\ ~Menciona(s_MEDICO, texto)
              /\ ~MencionaQuimico(texto)) =>
                 /\ pc' \in {"localizar", "retorno"}
                 /\ UNCHANGED <<datos_paciente, modal_abierto, consola>>]_vars

\* a row whose text names both kinds was stored as medical, and a
\* pharmaceutical row after it as pharmaceutical
C21_Witness ==
    /\ pc = "retorno"
    /\ Guardados("medico") = {t_Quimico_medico}
    /\ Guardados("quimico_farmaceutico") = {t_Farmacoterapeutico}
    /\ consola = <<>>

(***************************************************************************)
(* main: configuration, extraction phase, enrichment phase, persistence    *)
(***************************************************************************)
Fecha_Antigua == <<"2", "0", "2", "4", "-", "0", "1", "-", "1", "0">>
Fecha_Barras == <<"0", "1", "/", "0", "3", "/", "2", "0", "2", "4">>
s_Abacavir == <<"A", "b", "a", "c", "a", "v", "i", "r">>
s_Lamivudina == <<"L", "a", "m", "i", "v", "u", "d", "i", "n", "a">>
No_encontrado == <<"N", "o", " ", "e", "n", "c", "o", "n", "t", "r", "a", "d", "o">>

\* Lines 90-97: the variables get_env_vars reads that main checks, and one it
\* does not check.  os.getenv gives None (here <<>>) for a variable that is
\* not set, and the text (here <<text>>) otherwise.
EnvRequeridas ==
    {"FASTCLINICA_URL", "FASTCLINICA_USER", "FASTCLINICA_PASS", "AWS_BEDROCK_MODEL_ID"}
EnvNombres == EnvRequeridas \cup {"AWS_REGION"}
ValoresEnv == {<<>>, << <<>> >>, << <<"x">> >>}

\* Python truth value of an Optional[str]: None and "" are false.
Truthy(x) == x # <<>> /\ x[1] # <<>>

ConfigCompleta_SinModelo(e) ==
    \A v \in {"FASTCLINICA_URL", "FASTCLINICA_USER", "FASTCLINICA_PASS"} : Truthy(e[v])

\* Lines 1050-1057: all([FASTCLINICA_URL, USER, PASS, AWS_BEDROCK_MODEL_ID]).
ConfigCompleta(e) ==
    \A v \in {"FASTCLINICA_URL", "FASTCLINICA_USER", "FASTCLINICA_PASS",
              "AWS_BEDROCK_MODEL_ID"} : Truthy(e[v])

ManejadorDe_SinLimitePaciente(lugar) ==
    IF lugar \in {"login", "buscar", "historia", "tab_plan", "volver", "except_paciente"}
    THEN "except_lote"
    ELSE IF lugar = "except_lote" THEN "finally" ELSE "fin"

ManejadorDe_LoginFueraDelTry(lugar) ==
    IF lugar \in {"buscar", "historia", "tab_plan", "volver"} THEN "except_paciente"
    ELSE IF lugar = "except_paciente" THEN "except_lote"
    ELSE IF lugar \in {"login", "except_lote"} THEN "finally" ELSE "fin"

\* Lines 1068-1130: where control goes when the step at `lugar` raises.  The
\* steps of lines 1075-1111 are inside the inner try (handler at 1112); login
\* and the inner handler itself are inside the outer try only (handler at
\* 1121); an error raised in the outer handler passes through the finally
\* block; anything else leaves main.
ManejadorDe(lugar) ==
    IF lugar \in {"buscar", "historia", "tab_plan", "volver"} THEN "except_paciente"
    ELSE IF lugar \in {"login", "except_paciente"} THEN "except_lote"
    ELSE IF lugar = "except_lote" THEN "finally" ELSE "fin"

\* What the portal can show for one patient: the identifiers of a batch, the
\* heading of the patient page, the encounters of the history tab and the
\* prescriptions of the plan tab.
CedulasUI == {<<"7">>, <<"8">>}
NombreUI == <<"N">>
HistoriaUI ==
    [medico |-> <<>>, quimico_farmaceutico |-> <<Encuentro(Fecha_Reciente, ModalParcial)>>]
PlanesUI ==
    { <<FormulaUI(Fecha_Reciente, s_Abacavir), FormulaUI(Fecha_Antigua, s_Lamivudina)>>,
      <<FormulaUI(Fecha_Barras, s_Abacavir)>> }

\* What invocar_bedrock does in a run of main: it raises, it returns a text
\* without a JSON object, or it returns a text that is a JSON object.
TextoSinJson == <<"o", "k">>
TextoJson == <<"{">> \o ParConcepto \o <<"}">>
RespuestasUI ==
    {Respuesta("otra", <<>>), Respuesta("none", TextoSinJson), Respuesta("none", TextoJson)}

\* Line 1146: {p["CEDULA"]: p for p in pacientes_extraidos}; a later record
\* with the same identifier replaces an earlier one.  The value is the index
\* of the record in pacientes_extraidos.
pacientes_por_cedula ==
    LET cedulaDe(k) == cedulas_a_procesar[posiciones[k]]
    IN [c \in {cedulaDe(k) : k \in 1..Len(posiciones)} |->
           CHOOSE k \in 1..Len(posiciones) :
               /\ cedulaDe(k) = c
               /\ \A q \in 1..Len(posiciones) : cedulaDe(q) = c => q <= k]

otrosVars ==
    <<parserVars, labelVars, datos_clave, formulas_ui, plan_de_manejo, formulas, extraVars>>
entradaVars == <<env, cedulas_a_procesar>>

Init ==
    /\ pc = "inicio"
    /\ env \in [EnvNombres -> ValoresEnv]
    /\ cedulas_a_procesar \in Listas(CedulasUI, MaxPacientes)
    /\ i = 0 /\ p_idx = 0
    /\ pacientes_extraidos = <<>> /\ posiciones = <<>>
    /\ errores_paciente = <<>> /\ errores_lote = <<>>
    /\ driver = DriverSinCrear /\ llamadas_bedrock = 0 /\ salida = <<>>
    /\ ParserIdle /\ LabelIdle /\ ResumenIdle /\ FormulasIdle /\ ExtraIdle

\* Lines 1040-1061: the configuration is read and checked.
CargarConfiguracion ==
    /\ pc = "inicio"
    /\ pc' = IF ConfigCompleta(env) THEN "init_driver" ELSE "fin"
    /\ UNCHANGED <<excepcion, datos_paciente, otrosVars, mainVars, extraVars>>

\* Line 1066: driver = init_driver(), outside every try.
InitDriver ==
    /\ pc = "init_driver"
    /\ \/ /\ driver' = [driver EXCEPT !.creado = @ + 1]
          /\ pc' = "login"
          /\ UNCHANGED excepcion
       \/ /\ excepcion' = "init_driver"
          /\ pc' = ManejadorDe("init_driver")
          /\ UNCHANGED driver
    /\ UNCHANGED <<datos_paciente, otrosVars, entradaVars, i, pacientes_extraidos, posiciones,
                   errores_paciente, errores_lote, p_idx, llamadas_bedrock, salida>>

\* Lines 1069-1070: login, then the loop starts (or ends at once on an empty
\* batch).
Login ==
    /\ pc = "login"
    /\ \/ /\ driver' = [driver EXCEPT !.login = "ok", !.pantalla = "escritorio"]
          /\ IF cedulas_a_procesar # <<>>
             THEN i' = 1 /\ pc' = "buscar"
             ELSE i' = i /\ pc' = "finally"
          /\ UNCHANGED excepcion
       \/ /\ driver' = [driver EXCEPT !.login = "fallo", !.pantalla = "login"]
          /\ excepcion' = "login"
          /\ pc' = ManejadorDe("login")
          /\ UNCHANGED i
    /\ UNCHANGED <<datos_paciente, otrosVars, entradaVars, pacientes_extraidos, posiciones,
                   errores_paciente, errores_lote, p_idx, llamadas_bedrock, salida>>

\* Lines 1075-1093: the patient is searched and the record is created; a
\* search that succeeds has reached the page of the patient.
BuscarPaciente ==
    /\ pc = "buscar"
    /\ \/ /\ \E nombre \in {NombreUI, No_encontrado} :
                 datos_paciente' = RegistroPaciente(cedulas_a_procesar[i], nombre)
          /\ driver' = [driver EXCEPT !.busquedas = @ + 1, !.pantalla = "paciente"]
          /\ pc' = "historia"
          /\ UNCHANGED excepcion
       \/ /\ driver' = [driver EXCEPT !.busquedas = @ + 1]
          /\ excepcion' = "buscar_paciente"
          /\ pc' = ManejadorDe("buscar")
          /\ UNCHANGED datos_paciente
    /\ UNCHANGED <<otrosVars, entradaVars, i, pacientes_extraidos, posiciones,
                   errores_paciente, errores_lote, p_idx, llamadas_bedrock, salida>>

\* Lines 1094-1096: the history tab is read.
CapturarHistoria ==
    /\ pc = "historia"
    /\ \/ /\ datos_paciente' = [datos_paciente EXCEPT !.historia_clinica = HistoriaUI]
          /\ pc' = "tab_plan"
          /\ UNCHANGED excepcion
       \/ /\ excepcion' = "capturar_y_procesar_historia"
          /\ pc' = ManejadorDe("historia")
          /\ UNCHANGED datos_paciente
    /\ UNCHANGED <<otrosVars, mainVars, extraVars>>

\* Lines 1097-1103: the plan tab is read and the record is appended; the
\* return to the desktop follows except after the last identifier.
ProcesarPlan ==
    /\ pc = "tab_plan"
    /\ \/ /\ \E fs \in PlanesUI :
                 datos_paciente' = [datos_paciente EXCEPT !.plan_de_manejo.formulas_medicas = fs]
          /\ pacientes_extraidos' = Append(pacientes_extraidos, datos_paciente')
          /\ posiciones' = Append(posiciones, i)
          /\ pc' = IF i < Len(cedulas_a_procesar) THEN "volver" ELSE "finally"
          /\ UNCHANGED excepcion
       \/ /\ excepcion' = "procesar_plan_de_manejo"
          /\ pc' = ManejadorDe("tab_plan")
          /\ UNCHANGED <<datos_paciente, pacientes_extraidos, posiciones>>
    /\ UNCHANGED <<otrosVars, entradaVars, i, errores_paciente, errores_lote, driver, p_idx,
                   llamadas_bedrock, salida>>

driver_get_SinNavegar(d, pantalla) == d

\* driver.get(FASTCLINICA_URL) has returned: the browser shows the page the
\* portal answered with.
driver_get(d, pantalla) == [d EXCEPT !.pantalla = pantalla]

\* Lines 1104-1111: driver.get and the wait for the desktop heading, inside
\* the inner try; the wait times out when the page shown is not the desktop.
VolverEscritorio ==
    /\ pc = "volver"
    /\ \/ /\ driver' = driver_get(driver, "escritorio")
          /\ i' = i + 1
          /\ pc' = "buscar"
          /\ UNCHANGED excepcion
       \/ /\ driver' = driver_get(driver, "otra")
          /\ excepcion' = "volver_escritorio"
          /\ pc' = ManejadorDe("volver")
          /\ UNCHANGED i
    /\ UNCHANGED <<datos_paciente, otrosVars, entradaVars, pacientes_extraidos, posiciones,
                   errores_paciente, errores_lote, p_idx, llamadas_bedrock, salida>>

\* Lines 1112-1119: the per-patient handler prints the error, navigates to
\* the start page, without waiting for any element of it, and continues
\* with the next identifier.
ExceptPaciente ==
    /\ pc = "except_paciente"
    /\ errores_paciente' = Append(errores_paciente, i)
    /\ \/ /\ excepcion' = "none"
          /\ \E pantalla \in {"escritorio", "otra"} : driver' = driver_get(driver, pantalla)
          /\ IF i < Len(cedulas_a_procesar)
             THEN i' = i + 1 /\ pc' = "buscar"
             ELSE i' = i /\ pc' = "finally"
       \/ /\ excepcion' = "driver.get"
          /\ pc' = ManejadorDe("except_paciente")
          /\ UNCHANGED <<i, driver>>
    /\ UNCHANGED <<datos_paciente, otrosVars, entradaVars, pacientes_extraidos, posiciones,
                   errores_lote, p_idx, llamadas_bedrock, salida>>

\* Lines 1121-1126: the batch handler prints the error and calls
\* save_screenshot.
ExceptLote ==
    /\ pc = "except_lote"
    /\ errores_lote' = Append(errores_lote, excepcion)
    /\ driver' = [driver EXCEPT !.screenshots = @ + 1]
    /\ \/ excepcion' = "none" /\ pc' = "finally"
       \/ excepcion' = "save_screenshot" /\ pc' = ManejadorDe("except_lote")
    /\ UNCHANGED <<datos_paciente, otrosVars, entradaVars, i, pacientes_extraidos, posiciones,
                   errores_paciente, p_idx, llamadas_bedrock, salida>>

driver_quit_SinCerrar(d) == d

\* Line 1129: driver.quit()
driver_quit(d) == [d EXCEPT !.quits = @ + 1]

\* Lines 1127-1130: driver.quit(); an error that is still pending leaves main.
Finally ==
    /\ pc = "finally"
    /\ driver' = driver_quit(driver)
    /\ pc' = IF excepcion = "none" THEN "fase2" ELSE "fin"
    /\ UNCHANGED <<excepcion, datos_paciente, otrosVars, entradaVars, i, pacientes_extraidos,
                   posiciones, errores_paciente, errores_lote, p_idx, llamadas_bedrock, salida>>

\* Lines 1138-1149: nothing extracted ends the run; otherwise the index by
\* identifier is built and the inference client is created, outside every try.
Fase2 ==
    /\ pc = "fase2"
    /\ IF pacientes_extraidos = <<>>
       THEN pc' = "fin" /\ UNCHANGED <<excepcion, p_idx>>
       ELSE \/ p_idx' = 1 /\ pc' = "post" /\ UNCHANGED excepcion
            \/ excepcion' = "get_aws_service" /\ pc' = "fin" /\ UNCHANGED p_idx
    /\ UNCHANGED <<datos_paciente, otrosVars, entradaVars, i, pacientes_extraidos, posiciones,
                   errores_paciente, errores_lote, driver, llamadas_bedrock, salida>>

\* Lines 1152-1157: the prescriptions of the record are filtered and mapped,
\* in place, before the try of line 1159.
PostProcesar ==
    /\ pc = "post"
    /\ LET r == filtrar_formulas_recientes(pacientes_extraidos[p_idx].plan_de_manejo) IN
       IF r.raised
       THEN /\ excepcion' = "filtrar_formulas_recientes"
            /\ pc' = "fin"
            /\ UNCHANGED pacientes_extraidos
       ELSE /\ pacientes_extraidos' =
                [pacientes_extraidos EXCEPT ![p_idx].plan_de_manejo =
                    [r.plan EXCEPT !.formulas_medicas = mapear_siglas_med(r.ultimas)]]
            /\ pc' = "resumir"
            /\ UNCHANGED excepcion
    /\ UNCHANGED <<datos_paciente, otrosVars, entradaVars, i, posiciones, errores_paciente,
                   errores_lote, driver, p_idx, llamadas_bedrock, salida>>

\* Lines 1173-1181: the handler of the enrichment of one patient stores the
\* sentinel in the record.
MarcarFallo_SinMarca(registro) == registro

MarcarFallo(registro) == Put(registro, "concepto_qf", FALLO_TOTAL)

\* Lines 1159-1181: the record is summarised and the result is merged into the
\* record the index gives for the identifier; an error of the call stores the
\* sentinel there instead.  respuesta_texto is the text invocar_bedrock gave
\* and datos_finales is todos_los_campos_actualizados, empty when the call
\* raised before it was assigned.
ResumirPaciente ==
    /\ pc = "resumir"
    /\ llamadas_bedrock' = llamadas_bedrock + 1
    /\ \E respuesta \in RespuestasUI :
           LET paciente_data == pacientes_extraidos[p_idx]
               destino == pacientes_por_cedula[paciente_data.CEDULA]
               r == resumir_paciente_con_bedrock(paciente_data, respuesta)
           IN /\ respuesta_texto' = respuesta.texto
              /\ datos_finales' = r.datos_finales
              /\ pacientes_extraidos' =
                     [pacientes_extraidos EXCEPT ![destino] =
                         IF r.raised
                         THEN MarcarFallo(@)
                         ELSE Update(@, r.datos_finales)]
    /\ IF p_idx < Len(pacientes_extraidos)
       THEN p_idx' = p_idx + 1 /\ pc' = "post"
       ELSE p_idx' = p_idx /\ pc' = "persistir"
    /\ UNCHANGED <<excepcion, datos_paciente, parserVars, labelVars, datos_clave, formulas_ui,
                   plan_de_manejo, formulas, entradaVars, i, posiciones, errores_paciente,
                   errores_lote, driver, salida, historiaVars>>

\* Lines 1190-1197: the list is written to the output file.
Persistir ==
    /\ pc = "persistir"
    /\ salida' = <<pacientes_extraidos>>
    /\ pc' = "informes"
    /\ UNCHANGED <<excepcion, datos_paciente, otrosVars, entradaVars, i, pacientes_extraidos,
                   posiciones, errores_paciente, errores_lote, driver, p_idx, llamadas_bedrock>>

\* Lines 1199-1213: the Word reports are generated and main returns.
GenerarInformes ==
    /\ pc = "informes"
    /\ pc' = "fin"
    /\ UNCHANGED <<excepcion, datos_paciente, otrosVars, mainVars, extraVars>>

Next ==
    \/ CargarConfiguracion
    \/ InitDriver
    \/ Login
    \/ BuscarPaciente
    \/ CapturarHistoria
    \/ ProcesarPlan
    \/ VolverEscritorio
    \/ ExceptPaciente
    \/ ExceptLote
    \/ Finally
    \/ Fase2
    \/ PostProcesar
    \/ ResumirPaciente
    \/ Persistir
    \/ GenerarInformes

Spec == Init /\ [][Next]_vars

(***************************************************************************)
(* C1 (as stated): nothing raised in the patient loop reaches the batch    *)
(* handler, which therefore only ever handles a failed login, and once     *)
(* logged in the loop goes through every identifier of the batch.          *)
(***************************************************************************)
C1_Original ==
    /\ pc = "except_lote" => excepcion = "login"
    /\ (pc \in {"finally", "fase2", "fin"} /\ driver.login = "ok")
           => i = Len(cedulas_a_procesar)

(***************************************************************************)
(* C1: an error raised while searching a patient, reading the history tab  *)
(* or reading the plan tab goes to the per-patient handler and not to the  *)
(* batch handler.  The per-patient handler logs the position; when its     *)
(* navigation to the start page succeeds the loop goes on with the next    *)
(* identifier (or ends after the last one); when that navigation raises,   *)
(* its error goes to the batch handler, and from then on no identifier is  *)
(* searched.  The batch handler only receives errors of login and of that  *)
(* navigation.                                                             *)
(***************************************************************************)
C1_PatientBoundary ==
    [][/\ ((pc \in {"buscar", "historia", "tab_plan"} /\ excepcion' # "none")
              => (pc' = "except_paciente" /\ errores_lote' = errores_lote))
       /\ ((pc = "except_paciente" /\ excepcion' = "none")
              => (/\ errores_paciente' = Append(errores_paciente, i)
                  /\ IF i < Len(cedulas_a_procesar)
                     THEN i' = i + 1 /\ pc' = "buscar"
                     ELSE i' = i /\ pc' = "finally"))
       /\ ((pc = "except_paciente" /\ excepcion' # "none")
              => (excepcion' = "driver.get" /\ pc' = "except_lote"))
       /\ (pc' = "except_lote" => excepcion' \in {"login", "driver.get"})
       /\ (pc \in {"except_lote", "finally"}
              => (i' = i /\ driver'.busquedas = driver.busquedas))
      ]_vars

\* the first patient failed and the loop went on; the second failed and the
\* navigation of the handler raised
C1_Witness ==
    /\ pc = "except_lote"
    /\ excepcion = "driver.get"
    /\ errores_paciente = <<1, 2>>
    /\ Len(cedulas_a_procesar) >= 2

(***************************************************************************)
(* C2 (as stated): when the extraction loop ends without a batch-level     *)
(* error, every position of the batch is either the position of one record *)
(* or a logged failure, never both and never neither, and the number of    *)
(* records is the number of identifiers minus the number of logged         *)
(* failures.                                                               *)
(***************************************************************************)
C2_Original ==
    (pc = "fase2" /\ errores_lote = <<>>) =>
        (/\ Len(pacientes_extraidos) = Len(cedulas_a_procesar) - Len(errores_paciente)
         /\ \A p \in 1..Len(cedulas_a_procesar) :
                (\E k \in 1..Len(posiciones) : posiciones[k] = p)
                    # (\E k \in 1..Len(errores_paciente) : errores_paciente[k] = p))

(***************************************************************************)
(* C3 (as stated): when main ends after the enrichment loop has started on *)
(* a record, the output file holds the list of extracted records.          *)
(***************************************************************************)
C3_Original ==
    (pc = "fin" /\ p_idx >= 1) => salida = <<pacientes_extraidos>>

(***************************************************************************)
(* C4: after a failed login no patient is ever searched, no record is      *)
(* appended, nothing is written, the batch handler has called              *)
(* save_screenshot once by the time the finally block runs, and            *)
(* driver.quit has been called once when the finally block is left.        *)
(***************************************************************************)
C4_LoginFatal ==
    driver.login = "fallo" =>
        /\ pc \in {"except_lote", "finally", "fase2", "fin"}
        /\ driver.busquedas = 0 /\ i = 0
        /\ pacientes_extraidos = <<>> /\ llamadas_bedrock = 0 /\ salida = <<>>
        /\ (pc \in {"finally", "fase2", "fin"}
               => (driver.screenshots = 1 /\ errores_lote = <<"login">>))
        /\ (pc \in {"fase2", "fin"} => driver.quits = 1)

\* main has ended after a failed login
C4_Witness ==
    /\ pc = "fin"
    /\ driver.login = "fallo"
    /\ cedulas_a_procesar # <<>>
    /\ driver.screenshots = 1
    /\ driver.quits = 1

(***************************************************************************)
(* C5: when one of FASTCLINICA_URL, FASTCLINICA_USER, FASTCLINICA_PASS,    *)
(* AWS_BEDROCK_MODEL_ID is not set or is empty, no driver is ever created: *)
(* no login, no search, no screenshot, no call of the model and no output  *)
(* file; main returns from the configuration check.                        *)
(***************************************************************************)
C5_MissingConfig ==
    (\E v \in EnvRequeridas : env[v] \in {<<>>, << <<>> >>}) =>
        /\ pc \in {"inicio", "fin"}
        /\ driver = DriverSinCrear
        /\ excepcion = "none"
        /\ pacientes_extraidos = <<>> /\ llamadas_bedrock = 0 /\ salida = <<>>

\* main has returned on a configuration where only the model identifier is
\* missing
C5_Witness ==
    /\ pc = "fin"
    /\ env["AWS_BEDROCK_MODEL_ID"] = <<>>
    /\ \A v \in EnvRequeridas \ {"AWS_BEDROCK_MODEL_ID"} : env[v] = << <<"x">> >>
    /\ cedulas_a_procesar # <<>>

(***************************************************************************)
(* C15 (as stated): every patient object written to the output file has    *)
(* every key-fact and enriched field name, whichever way the enrichment of *)
(* the batch went.                                                         *)
(***************************************************************************)
C15_Original ==
    salida # <<>> =>
        \A k \in 1..Len(salida[1]) : ClavesDatos \subseteq DOMAIN salida[1][k]

C18_Original ==
    pc = "persistir" =>
        \A k \in 1..Len(pacientes_extraidos) : "concepto_qf" \in DOMAIN pacientes_extraidos[k]

(***************************************************************************)
(* C22 (as stated): when the search for a patient other than the first     *)
(* starts, the browser shows the desktop.                                  *)
(***************************************************************************)
C22_Original == (pc = "buscar" /\ i > 1) => driver.pantalla = "escritorio"

(***************************************************************************)
(* C22: the search for the next patient starts only from the return to the *)
(* desktop that follows a success or from the per-patient handler, and     *)
(* both have navigated to the start page, so the page of the earlier       *)
(* patient is no longer shown; after a success the desktop has been        *)
(* awaited and is shown, after a failure the page the portal answered with *)
(* is shown, which nothing has checked to be the desktop.                  *)
(***************************************************************************)
C22_ReturnToStart ==
    [][(pc' = "buscar" /\ i >= 1) =>
          /\ pc \in {"volver", "except_paciente"}
          /\ i' = i + 1
          /\ driver'.pantalla \in {"escritorio", "otra"}
          /\ pc = "volver" => driver'.pantalla = "escritorio"]_vars

\* the second search starts after a failure in the page of the first patient
C22_Witness ==
    /\ pc = "buscar"
    /\ i = 2
    /\ errores_paciente = <<1>>
    /\ driver.busquedas = 1
    /\ driver.pantalla = "otra"

(***************************************************************************)
(* C23: at most one driver is created; no patient is searched before the   *)
(* one login has succeeded; the identifiers are searched one at a time in  *)
(* the order of the batch, each once; once a driver exists, the enrichment *)
(* phase and the end of main are reached only with the driver closed       *)
(* exactly once, so every inference call comes after the close; and after  *)
(* the close nothing more is done with the driver.                         *)
(***************************************************************************)
C23_EstadoSesion ==
    /\ driver.creado <= 1 /\ driver.quits <= 1
    /\ driver.login # "no" => driver.creado = 1
    /\ driver.busquedas > 0 => driver.login = "ok"
    /\ driver.busquedas <= i
    /\ (pc \in {"fase2", "post", "resumir", "persistir", "informes"} \/ llamadas_bedrock > 0)
           => (driver.creado = 1 /\ driver.quits = 1)
    /\ (pc = "fin" /\ driver.creado = 1) => driver.quits = 1
    /\ driver.quits = 1 => pc \in {"fase2", "post", "resumir", "persistir", "informes", "fin"}

C23_PasoSesion ==
    /\ driver'.creado # driver.creado => (pc = "init_driver" /\ driver = DriverSinCrear)
    /\ driver'.login # driver.login =>
           (pc = "login" /\ driver.login = "no" /\ driver.busquedas = 0)
    /\ driver'.busquedas # driver.busquedas =>
           (pc = "buscar" /\ driver.busquedas = i - 1 /\ driver'.busquedas = i /\ i' = i)
    /\ i' # i => (i' = i + 1 /\ i' <= Len(cedulas_a_procesar))
    /\ driver'.quits # driver.quits => pc = "finally"
    /\ driver.quits = 1 => driver' = driver

C23_OneSession == []C23_EstadoSesion /\ [][C23_PasoSesion]_vars

\* two patients were searched, one of them failed, the driver was closed and
\* the first inference call has been made
C23_Witness ==
    /\ pc = "persistir"
    /\ driver.creado = 1 /\ driver.login = "ok" /\ driver.busquedas = 2
    /\ Len(errores_paciente) = 1
    /\ driver.quits = 1
    /\ llamadas_bedrock = 1

====
